---- MODULE Spec2Model ----
(***************************************************************************)
(* Model of the CraftEngineConverter rule engine (src/src/converter.py,    *)
(* src/src/utils.py): dotted-path addressing, condition evaluation,        *)
(* context resolution, the action applicator with its sequence counters,   *)
(* and the per-file rule driver.                                           *)
(*                                                                         *)
(* Encoding of Python values (YAML data):                                  *)
(*   None -> [t |-> "none"]            int  -> [t |-> "int",  v |-> n]       *)
(*   str  -> [t |-> "str", v |-> s]    bool -> [t |-> "bool", v |-> b]       *)
(*   list -> [t |-> "list", v |-> <<..>>]                                    *)
(*   dict -> [t |-> "map", v |-> f], f a function from key strings          *)
(*   the str produced by format.replace('{counter}', str(n)) for a format  *)
(*   that contains {counter} -> [t |-> "fstr", f |-> format, n |-> n]       *)
(* A dotted string ("a.b", a path, a sequence id, an override key) is the  *)
(* sequence of its segments, i.e. what str.split('.') returns: <<"a","b">>.*)
(* An ordered dict with optional keys (a rule, a condition, an action      *)
(* block) is a TLA+ record whose DOMAIN holds the keys that are present;   *)
(* an ordered mapping that the code iterates is a sequence of entries.     *)
(* Python lists are objects: a list of the rule set that a record can come *)
(* to hold itself, not a copy of it, carries the name of the object in the *)
(* extra field id; every value that holds the field is the same object.    *)
(* The lists of input records and every list the code builds carry no id.  *)
(***************************************************************************)
EXTENDS Integers, Sequences, FiniteSets, TLC

\* ------------------------------------------------------------ values

None == [t |-> "none"]

VInt(n) == [t |-> "int", v |-> n]

VStr(s) == [t |-> "str", v |-> s]

VBool(b) == [t |-> "bool", v |-> b]

VList(s) == [t |-> "list", v |-> s]

VMap(f) == [t |-> "map", v |-> f]

EmptyDict == [k \in {} |-> None]

\* isinstance(x, dict)
IsDict(x) == x.t = "map"

\* isinstance(x, list)
IsList(x) == x.t = "list"

\* isinstance(x, str)
IsStr(x) == x.t \in {"str", "fstr"}

\* isinstance(x, (int, float)): Python's bool is a subclass of int
IsNumber(x) == x.t \in {"int", "bool"}

\* the number a numeric value compares as (True is 1, False is 0)
NumOf(x) == IF x.t = "bool" THEN (IF x.v THEN 1 ELSE 0) ELSE x.v

\* the value carries the name of a list object
HasId(x) == "id" \in DOMAIN x

RECURSIVE Plain(_)
\* a copy of the value made of new objects (copy.deepcopy, a list or dict
\* built again element by element, a text parsed again)
Plain(x) ==
    IF x.t = "list" THEN VList([i \in 1..Len(x.v) |-> Plain(x.v[i])])
    ELSE IF x.t = "map" THEN VMap([k \in DOMAIN x.v |-> Plain(x.v[k])])
    ELSE x

RECURSIVE Rebind(_, _)
\* the value once the list objects named in objs hold what objs gives: an
\* in-place change of a list shows through every value that holds the list
Rebind(x, objs) ==
    IF x.t = "list" /\ HasId(x) /\ x.id \in DOMAIN objs THEN objs[x.id]
    ELSE IF x.t = "list" THEN [x EXCEPT !.v = [i \in 1..Len(x.v) |-> Rebind(x.v[i], objs)]]
    ELSE IF x.t = "map" THEN VMap([k \in DOMAIN x.v |-> Rebind(x.v[k], objs)])
    ELSE IF x.t = "expr" /\ "default_value" \in DOMAIN x
         THEN [x EXCEPT !.default_value = Rebind(@, objs)]
    ELSE x

\* a == b on values: numbers compare by their numeric value (True == 1),
\* lists and dicts by their content
PyEq(a, b) ==
    IF IsNumber(a) /\ IsNumber(b) THEN NumOf(a) = NumOf(b) ELSE Plain(a) = Plain(b)

\* bool(x): the truth value of a value
Truthy(x) ==
    CASE x.t = "none" -> FALSE
      [] x.t = "bool" -> x.v
      [] x.t = "int" -> x.v # 0
      [] x.t = "str" -> x.v # ""
      [] x.t = "list" -> x.v # <<>>
      [] x.t = "map" -> DOMAIN x.v # {}
      [] OTHER -> TRUE

\* `x is None`
IsNone(x) == x.t = "none"

\* d[k] = val on a dict
DictPut(f, k, val) == [x \in (DOMAIN f) \cup {k} |-> IF x = k THEN val ELSE f[x]]

\* del d[k]
DictDel(f, k) == [x \in (DOMAIN f) \ {k} |-> f[x]]

\* ------------------------------------------------------------ path addressing

RECURSIVE GetFrom(_, _, _)
\* the loop of get_nested_value from segment i on, `current` being the node reached
GetFrom(current, parts, i) ==
    IF i > Len(parts) THEN current
    ELSE IF IsDict(current) /\ parts[i] \in DOMAIN current.v
         THEN GetFrom(current.v[parts[i]], parts, i + 1)
         ELSE None

\* get_nested_value(data, path): None when a segment is missing or a non-dict is indexed
get_nested_value(data, path) == GetFrom(data, path, 1)

RECURSIVE SetFrom_KeepScalar(_, _, _, _)
\* SetFrom that creates a dict only where the key is missing: a scalar on the
\* way is kept and nothing is written under it
SetFrom_KeepScalar(current, parts, i, value) ==
    IF i = Len(parts)
    THEN VMap(DictPut(current.v, parts[i], value))
    ELSE IF parts[i] \in DOMAIN current.v /\ ~IsDict(current.v[parts[i]])
         THEN current
         ELSE LET child == IF parts[i] \in DOMAIN current.v
                           THEN current.v[parts[i]] ELSE VMap(EmptyDict)
              IN  VMap(DictPut(current.v, parts[i],
                               SetFrom_KeepScalar(child, parts, i + 1, value)))

RECURSIVE SetFrom_FreshAlways(_, _, _, _)
\* SetFrom that puts a new dict at every level above the last
SetFrom_FreshAlways(current, parts, i, value) ==
    IF i = Len(parts)
    THEN VMap(DictPut(current.v, parts[i], value))
    ELSE VMap(DictPut(current.v, parts[i],
                      SetFrom_FreshAlways(VMap(EmptyDict), parts, i + 1, value)))

RECURSIVE SetFrom(_, _, _, _)
\* the loop of set_nested_value from segment i on; `current` is a dict
SetFrom(current, parts, i, value) ==
    IF i = Len(parts)
    THEN VMap(DictPut(current.v, parts[i], value))
    ELSE LET keep == parts[i] \in DOMAIN current.v /\ IsDict(current.v[parts[i]])
             child == IF keep THEN current.v[parts[i]] ELSE VMap(EmptyDict)
         IN  VMap(DictPut(current.v, parts[i], SetFrom(child, parts, i + 1, value)))

\* set_nested_value(data, path, value): the dict after the in-place update
set_nested_value(data, path, value) == SetFrom(data, path, 1, value)

RECURSIVE DeleteFrom_Prune(_, _, _)
\* DeleteFrom that also removes a dict the deletion left empty
DeleteFrom_Prune(current, parts, i) ==
    IF ~(IsDict(current) /\ parts[i] \in DOMAIN current.v)
    THEN current
    ELSE IF i = Len(parts)
         THEN VMap(DictDel(current.v, parts[i]))
         ELSE LET child == DeleteFrom_Prune(current.v[parts[i]], parts, i + 1)
              IN  IF IsDict(child) /\ DOMAIN child.v = {}
                  THEN VMap(DictDel(current.v, parts[i]))
                  ELSE VMap(DictPut(current.v, parts[i], child))

RECURSIVE DeleteFrom(_, _, _)
\* the loop of delete_nested_value from segment i on
DeleteFrom(current, parts, i) ==
    IF ~(IsDict(current) /\ parts[i] \in DOMAIN current.v)
    THEN current
    ELSE IF i = Len(parts)
         THEN VMap(DictDel(current.v, parts[i]))
         ELSE VMap(DictPut(current.v, parts[i],
                          DeleteFrom(current.v[parts[i]], parts, i + 1)))

\* delete_nested_value(data, path): the dict after the in-place update
delete_nested_value(data, path) == DeleteFrom(data, path, 1)

\* ------------------------------------------------------------ placeholders

\* The context key a string names when it is exactly one placeholder token
\* "{key}" ("" when the string holds no token).  Strings of the modelled rule
\* sets hold at most one token and nothing else.
TokenKey(s) ==
    CASE s = "{content_id}" -> "content_id"
      [] s = "{content_type}" -> "content_type"
      [] s = "{base}" -> "base"
      [] s = "{tier}" -> "tier"
      [] OTHER -> ""

\* yaml.safe_load of a plain scalar text: numerals, booleans and null are
\* re-typed, anything else stays the same str
YamlLoadText(s) ==
    CASE s = "7" -> VInt(7)
      [] s = "true" -> VBool(TRUE)
      [] s = "null" -> None
      [] OTHER -> VStr(s)

\* yaml.safe_load(str(val)): what a string that is exactly "{key}" becomes once
\* the token is replaced by str(val) and the text is parsed again
YamlOfStr(val) ==
    CASE val.t = "str" -> YamlLoadText(val.v)
      [] val.t = "none" -> VStr("None")
      [] OTHER -> Plain(val)

\* process_placeholders on a str
SubstStr(value, context) ==
    IF value.t = "str" /\ TokenKey(value.v) \in DOMAIN context
    THEN YamlOfStr(context[TokenKey(value.v)])
    ELSE value

RECURSIVE process_placeholders(_, _)
\* process_placeholders(value, context) on a value: str, list, dict, other
process_placeholders(value, context) ==
    CASE value.t = "str" -> SubstStr(value, context)
      [] value.t = "list" ->
            VList([i \in 1..Len(value.v) |-> process_placeholders(value.v[i], context)])
      [] value.t = "map" ->
            VMap([k \in DOMAIN value.v |-> process_placeholders(value.v[k], context)])
      [] value.t = "expr" /\ "default_value" \in DOMAIN value ->
            [value EXCEPT !.default_value = process_placeholders(@, context)]
      [] OTHER -> value

\* process_placeholders on a dotted string used as a key (a path): a segment
\* that is a token is replaced by the text of a str context value
SubstPath(path, context) ==
    [i \in 1..Len(path) |->
        IF TokenKey(path[i]) \in DOMAIN context /\ context[TokenKey(path[i])].t = "str"
        THEN context[TokenKey(path[i])].v
        ELSE path[i]]

\* ------------------------------------------------------------ expressions

\* what the evaluation of an expression gives: a value, or a failure
Ok(val) == [ok |-> TRUE, v |-> val]

Failed == [ok |-> FALSE, v |-> None]

RECURSIVE EvalExpr(_, _, _)
\* aeval.eval(expression) on the expression forms the modelled rule sets use;
\* symtable maps the registered names (context variables, "data", "context")
\* to values.
\*   lit: a literal            name: a bare symbol (NameError when unknown)
\*   item: sym['key']          (KeyError / TypeError when it does not resolve)
\*   get: get(data, 'a.b')     mul: a * b on numbers
EvalExpr(expr, symtable, data) ==
    CASE expr.e = "lit" -> Ok(expr.v)
      [] expr.e = "name" ->
            IF expr.n \in DOMAIN symtable THEN Ok(symtable[expr.n]) ELSE Failed
      [] expr.e = "item" ->
            IF expr.n \in DOMAIN symtable /\ IsDict(symtable[expr.n])
               /\ expr.k \in DOMAIN symtable[expr.n].v
            THEN Ok(symtable[expr.n].v[expr.k])
            ELSE Failed
      [] expr.e = "get" -> Ok(get_nested_value(data, expr.p))
      [] expr.e = "mul" ->
            LET a == EvalExpr(expr.a, symtable, data)
                b == EvalExpr(expr.b, symtable, data)
            IN  IF a.ok /\ b.ok /\ IsNumber(a.v) /\ IsNumber(b.v)
                THEN Ok(VInt(NumOf(a.v) * NumOf(b.v)))
                ELSE Failed

\* isinstance(value_config, dict) and 'expression' in value_config: an
\* expression block is the dict {expression: ..., default_value?: ...}
IsExpressionBlock(value_config) ==
    value_config.t = "expr"

\* The try/except around aeval.eval: the value to use, or skip.  `raises`
\* tells whether the interpreter reports a failed evaluation by raising (the
\* except branch runs) or by returning None (the library's quiet mode).
EvalOrDefault(value_config, symtable, data, raises) ==
    LET r == EvalExpr(value_config.expression, symtable, data)
    IN  IF r.ok THEN [skip |-> FALSE, v |-> r.v]
        ELSE IF ~raises THEN [skip |-> FALSE, v |-> None]
        ELSE IF "default_value" \in DOMAIN value_config
             THEN [skip |-> FALSE, v |-> value_config.default_value]
             ELSE [skip |-> TRUE, v |-> None]

\* ------------------------------------------------------------ conditions

\* the prefixes of the strings the modelled records hold: re.match(pattern, s)
\* with a pattern of plain characters succeeds exactly when pattern is a prefix
Prefixes(s) ==
    CASE s = "sword" -> {"", "s", "sw", "sword"}
      [] s = "shield" -> {"", "s", "sh", "shield"}
      [] OTHER -> {"", s}

\* re.compile accepts the pattern ("[" is an unterminated character set)
RegexValid(pattern) == pattern.t = "str" /\ pattern.v # "["

\* evaluate_condition that passes at once when exists: false matched
evaluate_condition_ExistsFalseWins(item_config, condition, context) ==
    LET has(k) == k \in DOMAIN condition
        path == IF has("path") THEN SubstPath(condition.path, context) ELSE <<"">>
        field(k) == process_placeholders(condition[k], context)
        value_at_path == get_nested_value(item_config, path)
        absent == IsNone(value_at_path)
    IN  IF path = <<"">> THEN "false"
        ELSE IF has("exists") /\ field("exists") = VBool(TRUE) /\ absent THEN "false"
        ELSE IF has("exists") /\ field("exists") = VBool(FALSE) /\ ~absent THEN "false"
        ELSE IF has("exists") /\ field("exists") = VBool(FALSE) THEN "true"
        ELSE IF absent /\ (has("value") \/ has("regex_match") \/ has("min") \/ has("max"))
             THEN "false"
        ELSE IF has("value") /\ ~PyEq(value_at_path, field("value")) THEN "false"
        ELSE IF has("regex_match") /\ ~IsStr(value_at_path) THEN "false"
        ELSE IF has("regex_match") /\ ~RegexValid(field("regex_match")) THEN "raise"
        ELSE IF has("regex_match")
                /\ field("regex_match").v \notin Prefixes(value_at_path.v) THEN "false"
        ELSE IF (has("min") \/ has("max")) /\ ~IsNumber(value_at_path) THEN "false"
        ELSE IF has("min") /\ ~IsNumber(field("min")) THEN "raise"
        ELSE IF has("min") /\ NumOf(value_at_path) < NumOf(field("min")) THEN "false"
        ELSE IF has("max") /\ ~IsNumber(field("max")) THEN "raise"
        ELSE IF has("max") /\ NumOf(value_at_path) > NumOf(field("max")) THEN "false"
        ELSE "true"

\* evaluate_condition(item_config, condition, context): "true", "false", or
\* "raise" when an exception leaves the function (re.error, TypeError)
evaluate_condition(item_config, condition, context) ==
    LET has(k) == k \in DOMAIN condition
        path == IF has("path") THEN SubstPath(condition.path, context) ELSE <<"">>
        field(k) == process_placeholders(condition[k], context)
        value_at_path == get_nested_value(item_config, path)
        absent == IsNone(value_at_path)
    IN  IF path = <<"">> THEN "false"
        ELSE IF has("exists") /\ field("exists") = VBool(TRUE) /\ absent THEN "false"
        ELSE IF has("exists") /\ field("exists") = VBool(FALSE) /\ ~absent THEN "false"
        ELSE IF absent /\ (has("value") \/ has("regex_match") \/ has("min") \/ has("max"))
             THEN "false"
        ELSE IF has("value") /\ ~PyEq(value_at_path, field("value")) THEN "false"
        ELSE IF has("regex_match") /\ ~IsStr(value_at_path) THEN "false"
        ELSE IF has("regex_match") /\ ~RegexValid(field("regex_match")) THEN "raise"
        ELSE IF has("regex_match")
                /\ field("regex_match").v \notin Prefixes(value_at_path.v) THEN "false"
        ELSE IF (has("min") \/ has("max")) /\ ~IsNumber(value_at_path) THEN "false"
        ELSE IF has("min") /\ ~IsNumber(field("min")) THEN "raise"
        ELSE IF has("min") /\ NumOf(value_at_path) < NumOf(field("min")) THEN "false"
        ELSE IF has("max") /\ ~IsNumber(field("max")) THEN "raise"
        ELSE IF has("max") /\ NumOf(value_at_path) > NumOf(field("max")) THEN "false"
        ELSE "true"

\* ------------------------------------------------------------ context resolver

RECURSIVE ContextFrom(_, _, _, _, _)
\* the loop of process_dynamic_context from definition i on
ContextFrom(defs, i, final_context, content_config, raises) ==
    IF i > Len(defs) THEN final_context
    ELSE LET var_config == defs[i].cfg
             symtable == [k \in {"data", "context"} |->
                            IF k = "data" THEN content_config ELSE VMap(final_context)]
             r == IF IsExpressionBlock(var_config)
                  THEN EvalOrDefault(var_config, symtable, content_config, raises)
                  ELSE [skip |-> FALSE, v |-> var_config]
         IN  ContextFrom(defs, i + 1,
                         IF r.skip THEN final_context
                         ELSE DictPut(final_context, defs[i].name, r.v),
                         content_config, raises)

\* process_dynamic_context(context_definitions, content_config, base_context)
process_dynamic_context(context_definitions, content_config, base_context, raises) ==
    ContextFrom(context_definitions, 1, base_context, content_config, raises)

\* ------------------------------------------------------------ action applicator

\* 'key' in actions, for an action block given as its items in written order
HasKey(actions, key) == \E i \in 1..Len(actions) : actions[i].k = key

\* actions[key]
ValOf(actions, key) == actions[CHOOSE i \in 1..Len(actions) : actions[i].k = key].v

\* actions.get('skip', False)
SkipFlag(actions) == HasKey(actions, "skip") /\ Truthy(ValOf(actions, "skip"))

\* The applicator's working state: the record being edited, the counters, the
\* sequence uses made so far (one entry per counter use), whether an
\* exception has left the function, and what the list objects that were
\* changed in place hold now.
ActState(cfg, ctr, log, err) ==
    [cfg |-> cfg, ctr |-> ctr, log |-> log, err |-> err, obj |-> EmptyDict]

\* the context as the callee sees it: its values are the objects themselves
LiveContext(context, objs) == [k \in DOMAIN context |-> Rebind(context[k], objs)]

RECURSIVE DeleteLoop(_, _, _, _)
\* for path_to_delete in processed_delete_paths: delete_nested_value(...)
DeleteLoop(st, paths, i, context) ==
    IF i > Len(paths) THEN st
    ELSE DeleteLoop([st EXCEPT !.cfg = delete_nested_value(@, SubstPath(paths[i], context))],
                    paths, i + 1, context)

RECURSIVE RenameLoop_NoGuard(_, _, _, _)
\* RenameLoop without the test that the old path holds a value
RenameLoop_NoGuard(st, pairs, i, context) ==
    IF i > Len(pairs) THEN st
    ELSE LET old_path == SubstPath(pairs[i].old, context)
             new_path == SubstPath(pairs[i].new, context)
             value == get_nested_value(st.cfg, old_path)
             moved == delete_nested_value(set_nested_value(st.cfg, new_path, value), old_path)
         IN  RenameLoop_NoGuard([st EXCEPT !.cfg = moved], pairs, i + 1, context)

RECURSIVE RenameLoop(_, _, _, _)
\* for old_path, new_path in processed_rename_map.items(): set at new, delete old
RenameLoop(st, pairs, i, context) ==
    IF i > Len(pairs) THEN st
    ELSE LET old_path == SubstPath(pairs[i].old, context)
             new_path == SubstPath(pairs[i].new, context)
             value == get_nested_value(st.cfg, old_path)
             moved == delete_nested_value(set_nested_value(st.cfg, new_path, value), old_path)
         IN  RenameLoop(IF IsNone(value) THEN st ELSE [st EXCEPT !.cfg = moved],
                        pairs, i + 1, context)

\* SetSymtable without the record under "data"
SetSymtable_NoData(content_config, context) == context

\* the symbol table of a set expression: the registered names, then the
\* context variables on top of them (aeval.symtable.update(context))
SetSymtable(content_config, context) ==
    [k \in (DOMAIN context) \cup {"data"} |->
        IF k \in DOMAIN context THEN context[k] ELSE content_config]

RECURSIVE SetLoop(_, _, _, _, _)
\* for path, value_config in processed_set_map.items()
SetLoop(st, entries, i, context, raises) ==
    IF i > Len(entries) THEN st
    ELSE LET path == SubstPath(entries[i].path, context)
             value_config == process_placeholders(entries[i].val, context)
             r == IF IsExpressionBlock(value_config)
                  THEN EvalOrDefault(value_config, SetSymtable(st.cfg, context), st.cfg, raises)
                  ELSE [skip |-> FALSE, v |-> value_config]
         IN  SetLoop(IF r.skip THEN st
                     ELSE [st EXCEPT !.cfg = set_nested_value(@, path, r.v)],
                     entries, i + 1, context, raises)

\* elements_to_add if isinstance(elements_to_add, list) else [elements_to_add]
AsList(elements_to_add) == IF IsList(elements_to_add) THEN elements_to_add.v ELSE <<elements_to_add>>

RECURSIVE ExtendLoop(_, _, _, _, _)
\* the append loop (atEnd) and the prepend loop (~atEnd)
ExtendLoop(st, entries, i, context, atEnd) ==
    IF i > Len(entries) THEN st
    ELSE LET path == SubstPath(entries[i].path, context)
             elements_to_add == AsList(process_placeholders(entries[i].val, context))
             found == get_nested_value(st.cfg, path)
             current_list == IF IsNone(found) THEN <<>> ELSE found.v
             extended == IF atEnd THEN current_list \o elements_to_add
                         ELSE elements_to_add \o current_list
             grown == DictPut(st.obj, found.id, [found EXCEPT !.v = extended])
         IN  ExtendLoop(IF ~IsNone(found) /\ ~IsList(found) THEN st
                        ELSE IF IsList(found) /\ HasId(found)
                        THEN [st EXCEPT !.cfg = Rebind(@, grown), !.obj = grown]
                        ELSE [st EXCEPT !.cfg = set_nested_value(@, path, VList(extended))],
                        entries, i + 1, context, atEnd)

\* the format strings of the modelled rule sets that contain "{counter}"
HasCounterToken(format_string) == format_string \in {"item_{counter}"}

\* str.replace('{counter}', str(current_value)) on a format string
FormatCounter(format_string, current_value) ==
    IF HasCounterToken(format_string.v)
    THEN [t |-> "fstr", f |-> format_string.v, n |-> current_value]
    ELSE format_string

\* sequence_id = sequence_info.get('id'); `if sequence_id:` (the id "" is falsy)
HasSequenceId(sequence_info) ==
    "id" \in DOMAIN sequence_info /\ sequence_info.id # <<"">>

\* CounterKey with the isolated key built from the path alone
CounterKey_PathOnly(sequence_info, rule_name, path) ==
    IF HasSequenceId(sequence_info)
    THEN [id |-> sequence_info.id]
    ELSE [rule |-> VStr(""), path |-> path]

\* counter_key: f"shared_id_{sequence_id}" or (rule_name, path)
CounterKey(sequence_info, rule_name, path) ==
    IF HasSequenceId(sequence_info)
    THEN [id |-> sequence_info.id]
    ELSE [rule |-> rule_name, path |-> path]

\* InitialValue that never looks at the overrides
InitialValue_NoOverride(sequence_info, path, sequence_overrides) ==
    IF "start" \in DOMAIN sequence_info THEN sequence_info.start ELSE 0

\* the value a counter key is created with: start, or the override found
\* under the id (if any) or the path
InitialValue(sequence_info, path, sequence_overrides) ==
    LET start_value == IF "start" \in DOMAIN sequence_info THEN sequence_info.start ELSE 0
        override_key == IF HasSequenceId(sequence_info) THEN sequence_info.id ELSE path
    IN  IF override_key \in DOMAIN sequence_overrides
        THEN sequence_overrides[override_key]
        ELSE start_value

\* EnsureCounter that reads the override again on every use
EnsureCounter_Reapply(ctr, counter_key, sequence_info, path, sequence_overrides) ==
    LET override_key == IF HasSequenceId(sequence_info) THEN sequence_info.id ELSE path
    IN  IF counter_key \in DOMAIN ctr /\ override_key \notin DOMAIN sequence_overrides
        THEN ctr
        ELSE DictPut(ctr, counter_key, InitialValue(sequence_info, path, sequence_overrides))

\* sequence_counters after `if counter_key not in sequence_counters: ...`
EnsureCounter(ctr, counter_key, sequence_info, path, sequence_overrides) ==
    IF counter_key \in DOMAIN ctr THEN ctr
    ELSE DictPut(ctr, counter_key, InitialValue(sequence_info, path, sequence_overrides))

\* Advance that counts one per use whatever the step
Advance_ByOne(ctr, counter_key, step_value) ==
    [ctr EXCEPT ![counter_key] = @ + 1]

\* sequence_counters[counter_key] += step_value
Advance(ctr, counter_key, step_value) ==
    [ctr EXCEPT ![counter_key] = @ + step_value]

\* one iteration of the sequence loop on a well-formed entry with a counter key
SequenceUse(st, path, sequence_info, rule_name, sequence_overrides) ==
    LET counter_key == CounterKey(sequence_info, rule_name, path)
        step_value == IF "step" \in DOMAIN sequence_info THEN sequence_info.step ELSE 1
        created == counter_key \notin DOMAIN st.ctr
        ctr1 == EnsureCounter(st.ctr, counter_key, sequence_info, path, sequence_overrides)
        current_value == ctr1[counter_key]
        formatted == "format" \in DOMAIN sequence_info /\ Truthy(sequence_info.format)
                     /\ IsStr(sequence_info.format)
        final_value_to_set == IF formatted
                              THEN FormatCounter(sequence_info.format, current_value)
                              ELSE VInt(current_value)
        use == [rule |-> rule_name, path |-> path, shared |-> HasSequenceId(sequence_info),
                id |-> IF HasSequenceId(sequence_info) THEN sequence_info.id ELSE <<"">>,
                start |-> IF "start" \in DOMAIN sequence_info THEN sequence_info.start ELSE 0,
                step |-> step_value, key |-> counter_key, created |-> created,
                value |-> current_value, written |-> final_value_to_set]
    IN  [st EXCEPT !.cfg = set_nested_value(@, path, final_value_to_set),
                   !.ctr = Advance(ctr1, counter_key, step_value),
                   !.log = Append(@, use)]

RECURSIVE SequenceLoop(_, _, _, _, _, _)
\* for path, sequence_info in processed_sequence_map.items()
SequenceLoop(st, entries, i, context, rule_name, sequence_overrides) ==
    IF i > Len(entries) \/ st.err THEN st
    ELSE LET path == SubstPath(entries[i].path, context)
             raw == entries[i].info
             sequence_info == IF "t" \notin DOMAIN raw /\ "format" \in DOMAIN raw
                              THEN [raw EXCEPT !.format = process_placeholders(@, context)]
                              ELSE raw
             next == IF "t" \in DOMAIN sequence_info
                     THEN [st EXCEPT !.err = TRUE]
                     ELSE IF ~HasSequenceId(sequence_info) /\ rule_name = VStr("Unnamed Rule")
                     THEN st
                     ELSE SequenceUse(st, path, sequence_info, rule_name, sequence_overrides)
         IN  SequenceLoop(next, entries, i + 1, context, rule_name, sequence_overrides)

\* the six action kinds, each a no-op when the block does not hold it
\* (the placeholders of a kind are replaced when the kind starts, from the
\* context as it is then)
DoDelete(st, actions, context) ==
    IF HasKey(actions, "delete")
    THEN DeleteLoop(st, ValOf(actions, "delete"), 1, LiveContext(context, st.obj)) ELSE st

DoRename(st, actions, context) ==
    IF HasKey(actions, "rename")
    THEN RenameLoop(st, ValOf(actions, "rename"), 1, LiveContext(context, st.obj)) ELSE st

DoSet(st, actions, context, raises) ==
    IF HasKey(actions, "set")
    THEN SetLoop(st, ValOf(actions, "set"), 1, LiveContext(context, st.obj), raises) ELSE st

DoAppend(st, actions, context) ==
    IF HasKey(actions, "append")
    THEN ExtendLoop(st, ValOf(actions, "append"), 1, LiveContext(context, st.obj), TRUE) ELSE st

DoPrepend(st, actions, context) ==
    IF HasKey(actions, "prepend")
    THEN ExtendLoop(st, ValOf(actions, "prepend"), 1, LiveContext(context, st.obj), FALSE)
    ELSE st

DoSequence(st, actions, context, rule_name, sequence_overrides) ==
    IF HasKey(actions, "sequence")
    THEN SequenceLoop(st, ValOf(actions, "sequence"), 1, LiveContext(context, st.obj),
                      rule_name, sequence_overrides)
    ELSE st

RECURSIVE WrittenFrom(_, _, _, _, _, _, _)
\* the action kinds run one after the other in the order the block lists them
WrittenFrom(st, actions, i, context, rule_name, sequence_overrides, raises) ==
    IF i > Len(actions) THEN st
    ELSE LET k == actions[i].k
             one == <<actions[i]>>
             next == CASE k = "delete" -> DoDelete(st, one, context)
                       [] k = "rename" -> DoRename(st, one, context)
                       [] k = "set" -> DoSet(st, one, context, raises)
                       [] k = "append" -> DoAppend(st, one, context)
                       [] k = "prepend" -> DoPrepend(st, one, context)
                       [] k = "sequence" ->
                             DoSequence(st, one, context, rule_name, sequence_overrides)
                       [] OTHER -> st
         IN  WrittenFrom(next, actions, i + 1, context, rule_name, sequence_overrides, raises)

\* ApplyInOrder that follows the written order of the block
ApplyInOrder_Written(st, actions, context, rule_name, sequence_overrides, raises) ==
    WrittenFrom(st, actions, 1, context, rule_name, sequence_overrides, raises)

\* the body of apply_actions after the skip test: the fixed order of the kinds
ApplyInOrder(st, actions, context, rule_name, sequence_overrides, raises) ==
    DoSequence(
        DoPrepend(
            DoAppend(
                DoSet(DoRename(DoDelete(st, actions, context), actions, context),
                      actions, context, raises),
                actions, context),
            actions, context),
        actions, context, rule_name, sequence_overrides)

\* apply_actions(content_config, actions, context, sequence_counters, rule_name,
\* sequence_overrides): the record and the counters after the in-place updates
apply_actions(content_config, actions, context, sequence_counters, rule_name, sequence_overrides, raises) ==
    LET st == ActState(content_config, sequence_counters, <<>>, FALSE)
    IN  IF SkipFlag(actions) THEN st
        ELSE ApplyInOrder(st, actions, context, rule_name, sequence_overrides, raises)

\* ------------------------------------------------------------ rule driver

\* MaxFiles bounds the number of input files of one batch.
MaxFiles == 2

\* f"{content_type}s" if not content_type.endswith('s') else content_type, on
\* the content types of the modelled rule sets
ContentKeyBase(content_type) ==
    CASE content_type = "item" -> "items"
      [] content_type = "items" -> "items"
      [] content_type = "block" -> "blocks"
      [] OTHER -> content_type

\* a group key without its trailing digits, on the keys of the modelled trees
StripDigits(key) ==
    CASE key = "items2" -> "items"
      [] key = "item2" -> "item"
      [] key = "blocks1" -> "blocks"
      [] OTHER -> key

\* KeyMatches with the final s optional: the bare content type matches too
KeyMatches_OptionalS(content_type, k) ==
    StripDigits(k) = content_type \/ StripDigits(k) = ContentKeyBase(content_type)

\* re.match(f"^{re.escape(content_key_base)}\d*$", k)
KeyMatches(content_type, k) == StripDigits(k) = ContentKeyBase(content_type)

\* MatchingKeys that stops at the first key that matches
MatchingKeys_FirstOnly(tree, content_type) ==
    LET all == SelectSeq([i \in 1..Len(tree) |-> tree[i].key],
                         LAMBDA k : KeyMatches(content_type, k))
    IN  IF all = <<>> THEN <<>> ELSE <<all[1]>>

\* [k for k in old_data if re.match(...)], in the order of old_data
MatchingKeys(tree, content_type) ==
    SelectSeq([i \in 1..Len(tree) |-> tree[i].key], LAMBDA k : KeyMatches(content_type, k))

\* old_data.get(content_key, {})
GroupOf(tree, content_key) ==
    tree[CHOOSE i \in 1..Len(tree) : tree[i].key = content_key].group

\* top_level_rule.get('content'), falsy when missing or empty
ContentType(top_level_rule) ==
    IF "content" \in DOMAIN top_level_rule THEN top_level_rule.content ELSE ""

\* top_level_rule.get('rules', [])
NestedRules(top_level_rule) ==
    IF "rules" \in DOMAIN top_level_rule THEN top_level_rule.rules ELSE <<>>

\* top_level_rule.get('context', {})
ContextDefinitions(top_level_rule) ==
    IF "context" \in DOMAIN top_level_rule THEN top_level_rule.context ELSE <<>>

\* rule.get('name', 'Unnamed Rule')
RuleName(rule) == IF "name" \in DOMAIN rule THEN rule.name ELSE VStr("Unnamed Rule")

\* rule.get('actions', {})
RuleActions(rule) == IF "actions" \in DOMAIN rule THEN rule.actions ELSE <<>>

\* the names a rule waits for: depends_on as a list (a single name is wrapped),
\* empty when depends_on is missing or falsy
Dependencies(rule) ==
    IF "depends_on" \in DOMAIN rule /\ Truthy(rule.depends_on)
    THEN AsList(rule.depends_on)
    ELSE <<>>

\* MissingDeps that looks at the first dependency only
MissingDeps_FirstOnly(rule, executed) ==
    Dependencies(rule) # <<>> /\ Dependencies(rule)[1] \notin executed

\* missing_deps is not empty
MissingDeps(rule, executed) ==
    \E i \in 1..Len(Dependencies(rule)) : Dependencies(rule)[i] \notin executed

RECURSIVE ConditionsFrom(_, _, _, _)
\* the loop over rule['conditions'] from condition i on: "true" when all pass,
\* "false" at the first that fails, "raise" when one raises
ConditionsFrom(conditions, i, content_config, context) ==
    IF i > Len(conditions) THEN "true"
    ELSE LET r == evaluate_condition(content_config, conditions[i], context)
         IN  IF r = "true" THEN ConditionsFrom(conditions, i + 1, content_config, context)
             ELSE r

\* conditions_met for a rule
ConditionsMet(rule, content_config, context) ==
    IF "conditions" \in DOMAIN rule
    THEN ConditionsFrom(rule.conditions, 1, content_config, context)
    ELSE "true"

\* RuleOutcome without the test of the skip flag before the conditions
RuleOutcome_NoSkipTest(rule, content_config, executed, context) ==
    IF MissingDeps(rule, executed) THEN "dep_skip"
    ELSE LET c == ConditionsMet(rule, content_config, context)
         IN  IF c = "true" THEN "apply" ELSE IF c = "false" THEN "cond_fail" ELSE "raise"

\* how the visit of one nested rule ends
RuleOutcome(rule, content_config, executed, context) ==
    IF MissingDeps(rule, executed) THEN "dep_skip"
    ELSE IF SkipFlag(RuleActions(rule)) THEN "skip_flag"
    ELSE LET c == ConditionsMet(rule, content_config, context)
         IN  IF c = "true" THEN "apply" ELSE IF c = "false" THEN "cond_fail" ELSE "raise"

\* executed_rules_for_item after a rule was applied: `if rule.get('name'): add`
ExecutedAfter(executed, rule) ==
    IF "name" \in DOMAIN rule /\ Truthy(rule.name) THEN executed \cup {rule.name} ELSE executed

\* NewFileCounters that keeps one counter state for the whole batch
NewFileCounters_Carried(carried) == carried

\* sequence_counters = {} at the start of convert_single_file; `carried` is the
\* counter state the previous file conversion ended with
NewFileCounters(carried) == EmptyDict

\* ------------------------------------------------------------ inputs

\* expression texts of the modelled rule sets, as syntax trees
Lit(v) == [e |-> "lit", v |-> v]

Name(n) == [e |-> "name", n |-> n]

Item(n, k) == [e |-> "item", n |-> n, k |-> k]

Mul(a, b) == [e |-> "mul", a |-> a, b |-> b]

\* {expression: ...} and {expression: ..., default_value: ...}
Expr(e) == [t |-> "expr", expression |-> e]

ExprDefault(e, d) == [t |-> "expr", expression |-> e, default_value |-> d]

\* records
Sword == VMap([damage |-> VInt(5)])

Shield == VMap([damage |-> VInt(2), tags |-> VList(<<VStr("old")>>), note |-> None])

Bow == VMap([stats |-> VMap([damage |-> VInt(7)]), kind |-> VStr("sword")])

\* input record trees: group keys in file order, each group its records in order
Trees ==
    << <<[key |-> "items", group |-> <<[id |-> "sword", cfg |-> Sword]>>]>>,
       <<[key |-> "items", group |-> <<[id |-> "sword", cfg |-> Sword],
                                        [id |-> "shield", cfg |-> Shield]>>],
         [key |-> "misc", group |-> <<[id |-> "readme", cfg |-> VMap([damage |-> VInt(1)])]>>],
         [key |-> "items2", group |-> <<[id |-> "bow", cfg |-> Bow]>>],
         [key |-> "blocks", group |-> <<>>],
         [key |-> "item", group |-> <<[id |-> "dagger", cfg |-> Sword]>>],
         [key |-> "item2", group |-> <<>>]>> >>

\* --sequence-start tokens, parsed: override key -> initial value
Overrides ==
    << EmptyDict,
       [k \in {<<"cmd">>} |-> 100],
       [k \in {<<"custom-model-data">>} |-> 50000] >>

\* one action of a block, and one entry of an action's mapping
Act(k, v) == [k |-> k, v |-> v]

At(path, val) == [path |-> path, val |-> val]

Seq1(path, info) == [path |-> path, info |-> info]

\* the action kinds of OrderBlock, in the four written orders the model draws
WrittenOrders ==
    << <<"delete", "rename", "set", "append", "prepend", "sequence">>,
       <<"sequence", "prepend", "append", "set", "rename", "delete">>,
       <<"set", "delete", "sequence", "rename", "prepend", "append">>,
       <<"append", "sequence", "set", "prepend", "delete", "rename">> >>

\* the payload of each kind in OrderBlock: every kind touches what another
\* kind of the block also touches
OrderPayload(k) ==
    CASE k = "delete" -> << <<"damage">>, <<"fresh">> >>
      [] k = "rename" -> <<[old |-> <<"fresh">>, new |-> <<"moved">>],
                           [old |-> <<"tags">>, new |-> <<"labels">>]>>
      [] k = "set" -> <<At(<<"fresh">>, VInt(1)), At(<<"damage">>, VInt(9)),
                        At(<<"list">>, VList(<<VStr("mid")>>)), At(<<"cmd">>, VStr("unset"))>>
      [] k = "append" -> <<At(<<"list">>, VStr("last")), At(<<"labels">>, VStr("new"))>>
      [] k = "prepend" -> <<At(<<"list">>, VStr("first"))>>
      [] OTHER -> <<Seq1(<<"cmd">>, [start |-> 3]), Seq1(<<"list2">>, [id |-> <<"shared">>])>>

\* an action block holding the six kinds in the written order `order`
OrderBlock(order) == [i \in 1..Len(order) |-> Act(order[i], OrderPayload(order[i]))]

\* a nested rule that doubles damage when it is at least 3
DoubleRule(e) ==
    [name |-> VStr("double"),
     conditions |-> <<[path |-> <<"damage">>, min |-> VInt(3)]>>,
     actions |-> <<Act("set", <<At(<<"damage">>, Expr(e))>>)>>]

\* a nested rule with one sequence entry
SeqRule(name, path, info) ==
    [name |-> VStr(name), actions |-> <<Act("sequence", <<Seq1(path, info)>>)>>]

\* a nested rule that tests one condition and marks the record when it passes
Probe(name, condition) ==
    [name |-> VStr(name), conditions |-> <<condition>>,
     actions |-> <<Act("append", <<At(<<"passed">>, VStr(name))>>)>>]

\* the rule sets the model draws from
RuleSets ==
    << \* 1: no top-level rule
       <<>>,
       \* 2: one top-level rule without nested rules
       <<[content |-> "item"]>>,
       \* 3: set damage to the expression damage * 2
       <<[content |-> "item", rules |-> <<DoubleRule(Mul(Name("damage"), Lit(VInt(2))))>>]>>,
       \* 4: set damage to the expression data['damage'] * 2
       <<[content |-> "item", rules |-> <<DoubleRule(Mul(Item("data", "damage"), Lit(VInt(2))))>>]>>,
       \* 5: isolated and shared counters, the second top-level rule runs again
       <<[content |-> "item",
          rules |-> <<SeqRule("model", <<"cmd">>, [start |-> 1, step |-> 2]),
                      SeqRule("other", <<"cmd">>, [start |-> 10]),
                      SeqRule("model", <<"idx">>, [id |-> <<"custom-model-data">>,
                                                   start |-> 1, step |-> 1]),
                      [actions |-> <<Act("sequence",
                           <<Seq1(<<"anon">>, [start |-> 5]),
                             Seq1(<<"uid">>, [id |-> <<"custom-model-data">>, start |-> 1])>>)>>]>>],
         [content |-> "items",
          rules |-> <<SeqRule("model", <<"cmd">>, [start |-> 1, step |-> 2])>>]>>,
       \* 6: one shared id, raw and formatted, with a negative step elsewhere
       <<[content |-> "item",
          rules |-> <<SeqRule("cmd", <<"model", "cmd">>, [id |-> <<"custom-model-data">>,
                                                          start |-> 1]),
                      SeqRule("down", <<"rank">>, [start |-> 0, step |-> -1]),
                      SeqRule("label", <<"label">>, [start |-> 7, format |-> VStr("item_{counter}")])>>]>>,
       \* 7: dependencies, skip flags, failing conditions
       <<[content |-> "item",
          rules |-> <<Probe("strong", [path |-> <<"damage">>, min |-> VInt(3)]),
                      [name |-> VStr("after_strong"), depends_on |-> VStr("strong"),
                       actions |-> <<Act("set", <<At(<<"tier">>, VStr("{content_id}"))>>)>>],
                      [name |-> VStr("off"),
                       actions |-> <<Act("skip", VBool(TRUE)), Act("set", <<At(<<"off">>, VInt(1))>>)>>],
                      [name |-> VStr("after_off"), depends_on |-> VList(<<VStr("off")>>),
                       actions |-> <<Act("set", <<At(<<"never">>, VInt(1))>>)>>],
                      [name |-> VStr(""), actions |-> <<Act("delete", << <<"note">> >>)>>],
                      [depends_on |-> VList(<<VStr("strong"), VStr("after_strong")>>),
                       actions |-> <<Act("set", <<At(<<"both">>, VInt(1))>>)>>],
                      [name |-> VStr("half"), depends_on |-> VList(<<VStr("strong"), VStr("off")>>),
                       actions |-> <<Act("set", <<At(<<"half">>, VInt(1))>>)>>],
                      [name |-> VStr("last"), depends_on |-> VList(<<VStr("")>>)]>>]>>,
       \* 8: exists conditions on an absent field, a present field, a null field
       <<[content |-> "item",
          rules |-> <<Probe("no_nope", [path |-> <<"nope">>, exists |-> VBool(FALSE)]),
                      Probe("no_damage", [path |-> <<"damage">>, exists |-> VBool(FALSE)]),
                      Probe("no_note", [path |-> <<"note">>, exists |-> VBool(FALSE)]),
                      Probe("no_tags", [path |-> <<"tags">>, exists |-> VBool(FALSE)]),
                      Probe("has_note", [path |-> <<"note">>, exists |-> VBool(TRUE)]),
                      Probe("deep", [path |-> <<"stats", "damage">>, exists |-> VBool(FALSE)]),
                      Probe("kind", [path |-> <<"kind">>, regex_match |-> VStr("sw")])>>]>>,
       \* 9: a top-level rule without content, one that matches no group, a
       \* context, and a condition whose bound cannot be compared
       <<[rules |-> <<SeqRule("lost", <<"cmd">>, [start |-> 1])>>],
         [content |-> "glass", rules |-> <<SeqRule("none", <<"cmd">>, [start |-> 1])>>],
         [content |-> "block", rules |-> <<SeqRule("blk", <<"cmd">>, [start |-> 1])>>],
         [content |-> "item",
          context |-> <<[name |-> "base", cfg |-> VInt(4)],
                        [name |-> "tier", cfg |-> Expr(Mul(Item("context", "base"),
                                                          Item("data", "damage")))]>>,
          rules |-> <<[name |-> VStr("ctx"),
                       actions |-> <<Act("set", <<At(<<"power">>, VStr("{tier}")),
                                                  At(<<"{content_id}", "base">>, Expr(Name("base")))>>)>>],
                      Probe("bad_bound", [path |-> <<"damage">>, max |-> VStr("high")])>>]>>,
       \* 10: a group without records, and sequence entries in rules whose name
       \* is empty, null or missing
       <<[content |-> "block"],
         [content |-> "item",
          rules |-> <<[name |-> VStr(""),
                       actions |-> <<Act("sequence",
                           <<Seq1(<<"blank">>, [start |-> 1]),
                             Seq1(<<"uid">>, [id |-> <<"shared">>, start |-> 1])>>)>>],
                      [name |-> None,
                       actions |-> <<Act("sequence", <<Seq1(<<"nul">>, [start |-> 1])>>)>>],
                      [actions |-> <<Act("sequence",
                           <<Seq1(<<"anon">>, [start |-> 5]),
                             Seq1(<<"uid2">>, [id |-> <<"shared">>])>>)>>]>>]>>,
       \* 11: a rule with skip: true whose condition cannot be evaluated, a
       \* rule with skip: false, and a rule that depends on each
       <<[content |-> "item",
          rules |-> <<[name |-> VStr("off"),
                       conditions |-> <<[path |-> <<"damage">>, max |-> VStr("high")]>>,
                       actions |-> <<Act("skip", VBool(TRUE)),
                                     Act("set", <<At(<<"off">>, VInt(1))>>),
                                     Act("sequence", <<Seq1(<<"cmd">>, [start |-> 1])>>)>>],
                      [name |-> VStr("after_off"), depends_on |-> VStr("off"),
                       actions |-> <<Act("set", <<At(<<"never">>, VInt(1))>>)>>],
                      [name |-> VStr("on"),
                       actions |-> <<Act("skip", VBool(FALSE)),
                                     Act("set", <<At(<<"on">>, VInt(1))>>)>>],
                      [name |-> VStr("after_on"), depends_on |-> VStr("on"),
                       actions |-> <<Act("sequence", <<Seq1(<<"cmd">>, [start |-> 1])>>)>>]>>]>>,
       \* 12: a context variable that is a list of the rule set, set as the
       \* tags of the record by the expression base_tags, then appended to
       <<[content |-> "item",
          context |-> <<[name |-> "base_tags",
                         cfg |-> [t |-> "list", v |-> <<VStr("common")>>, id |-> "base_tags"]]>>,
          rules |-> <<[name |-> VStr("tag"),
                       actions |-> <<Act("set", <<At(<<"tags">>, Expr(Name("base_tags")))>>),
                                     Act("append", <<At(<<"tags">>, VStr("{content_id}"))>>)>>]>>]>> >>

\* the number of fixed rule sets; the rule sets after them hold OrderBlock in
\* one written order each
NumRuleSets == Len(RuleSets)

\* rule set number n of the model
RuleSetNo(n) ==
    IF n <= NumRuleSets THEN RuleSets[n]
    ELSE <<[content |-> "item",
            rules |-> <<[name |-> VStr("order"),
                         actions |-> OrderBlock(WrittenOrders[n - NumRuleSets])]>>]>>

\* ------------------------------------------------------------ state

VARIABLES
    rules_config_path,       \* which rules file the run was given
    rules_list,              \* the rule set loaded from it
    input_files,             \* the record trees of the batch, in order
    sequence_overrides,      \* override key -> initial value
    aeval_raises,            \* whether a failed evaluation raises or gives None
    pc,                      \* position in convert_multiple_files / convert_single_file
    file_no,                 \* index of the file being converted
    top_no,                  \* index of the top-level rule being processed
    key_no,                  \* index into matching_keys
    rec_no,                  \* index of the record within the group
    rule_no,                 \* index of the nested rule to visit next
    new_data,                \* the output tree being built
    sequence_counters,       \* counter key -> current value
    content_config_new,      \* the record being transformed
    executed_rules_for_item, \* names of the rules applied to this record
    final_context,           \* the resolved context of this record
    outputs,                 \* the trees written so far, one per converted file
    seq_log,                 \* the sequence uses of this file conversion, in order
    visits,                  \* how the visit of each nested rule of this record ended
    last_counters,           \* the counter state the previous file conversion ended with
    call                     \* the last direct call of a library function, with its arguments

vars == <<rules_config_path, rules_list, input_files, sequence_overrides, aeval_raises, pc,
          file_no, top_no, key_no, rec_no, rule_no, new_data, sequence_counters, content_config_new,
          executed_rules_for_item, final_context, outputs, seq_log, visits, last_counters, call>>

inputs == <<rules_config_path, rules_list, input_files, sequence_overrides, aeval_raises>>

\* the inputs that the run cannot change
given == <<rules_config_path, input_files, sequence_overrides, aeval_raises>>

\* what no step of a file conversion changes once the file is loaded
perfile == <<inputs, last_counters, call>>

\* the tree of the file being converted
old_data == input_files[file_no]

top_level_rule == rules_list[top_no]

matching_keys == MatchingKeys(old_data, ContentType(top_level_rule))

content_key == matching_keys[key_no]

contents_to_process == GroupOf(old_data, content_key)

content_id == contents_to_process[rec_no].id

nested_rules == NestedRules(top_level_rule)

\* a direct call: how many were made, the function, its arguments (arg holds
\* the numbers of the drawn conditions, definitions or entries), the record
\* it was given and what it returned
Called(n, fn, path, to, value, arg, before, result) ==
    [n |-> n, fn |-> fn, path |-> path, to |-> to, value |-> value, arg |-> arg,
     before |-> before, result |-> result]

\* no direct call was made
NoCall == Called(0, "none", <<>>, <<>>, None, <<>>, None, "")

\* batches of 1..MaxFiles trees
FileLists == UNION {[1..n -> 1..Len(Trees)] : n \in 1..MaxFiles}

Init ==
    /\ rules_config_path \in 1..(NumRuleSets + Len(WrittenOrders))
    /\ rules_list = RuleSetNo(rules_config_path)
    /\ \E fl \in FileLists : input_files = [i \in DOMAIN fl |-> Trees[fl[i]]]
    /\ \E o \in 1..Len(Overrides) : sequence_overrides = Overrides[o]
    /\ aeval_raises \in BOOLEAN
    /\ pc = "load"
    /\ file_no = 1
    /\ top_no = 1
    /\ key_no = 1
    /\ rec_no = 1
    /\ rule_no = 1
    /\ new_data = EmptyDict
    /\ sequence_counters = EmptyDict
    /\ content_config_new = None
    /\ executed_rules_for_item = {}
    /\ final_context = EmptyDict
    /\ outputs = <<>>
    /\ seq_log = <<>>
    /\ visits = <<>>
    /\ last_counters = EmptyDict
    /\ call = NoCall

\* ------------------------------------------------------------ actions

\* convert_single_file starts on the next file: new_data = {}, sequence_counters = {}
LoadFile ==
    /\ pc = "load"
    /\ new_data' = EmptyDict
    /\ sequence_counters' = NewFileCounters(sequence_counters)
    /\ last_counters' = sequence_counters
    /\ seq_log' = <<>>
    /\ top_no' = 1
    /\ pc' = "top"
    /\ UNCHANGED <<inputs, file_no, key_no, rec_no, rule_no, content_config_new,
                   executed_rules_for_item, final_context, outputs, visits, call>>

\* a top-level rule without content, or one that matches no group key, is passed over
TopRuleSkip ==
    /\ pc = "top"
    /\ top_no <= Len(rules_list)
    /\ (ContentType(top_level_rule) = "" \/ matching_keys = <<>>)
    /\ top_no' = top_no + 1
    /\ UNCHANGED <<perfile, pc, file_no, key_no, rec_no, rule_no, new_data, sequence_counters,
                   content_config_new, executed_rules_for_item, final_context, outputs,
                   seq_log, visits>>

\* a top-level rule that matches at least one group key starts on its groups
TopRuleEnter ==
    /\ pc = "top"
    /\ top_no <= Len(rules_list)
    /\ ContentType(top_level_rule) # ""
    /\ matching_keys # <<>>
    /\ key_no' = 1
    /\ pc' = "group"
    /\ UNCHANGED <<perfile, file_no, top_no, rec_no, rule_no, new_data, sequence_counters,
                   content_config_new, executed_rules_for_item, final_context, outputs,
                   seq_log, visits>>

\* GroupEnter that leaves a group without records out of the output tree
GroupEnter_NoEmptyGroup ==
    /\ pc = "group"
    /\ key_no <= Len(matching_keys)
    /\ IF contents_to_process = <<>>
       THEN /\ key_no' = key_no + 1
            /\ UNCHANGED <<pc, rec_no, new_data>>
       ELSE /\ new_data' = DictPut(new_data, content_key, EmptyDict)
            /\ rec_no' = 1
            /\ pc' = "record"
            /\ UNCHANGED key_no
    /\ UNCHANGED <<perfile, file_no, top_no, rule_no, sequence_counters, content_config_new,
                   executed_rules_for_item, final_context, outputs, seq_log, visits>>

\* GroupEnter that passes over a group an earlier top-level rule has already
\* put into the output tree
GroupEnter_FirstRuleWins ==
    /\ pc = "group"
    /\ key_no <= Len(matching_keys)
    /\ IF content_key \in DOMAIN new_data
       THEN /\ key_no' = key_no + 1
            /\ UNCHANGED <<pc, rec_no, new_data>>
       ELSE /\ new_data' = DictPut(new_data, content_key, EmptyDict)
            /\ IF contents_to_process = <<>>
               THEN /\ key_no' = key_no + 1
                    /\ UNCHANGED <<pc, rec_no>>
               ELSE /\ rec_no' = 1
                    /\ pc' = "record"
                    /\ UNCHANGED key_no
    /\ UNCHANGED <<perfile, file_no, top_no, rule_no, sequence_counters, content_config_new,
                   executed_rules_for_item, final_context, outputs, seq_log, visits>>

\* for content_key in matching_keys: new_data[content_key] = {}
GroupEnter ==
    /\ pc = "group"
    /\ key_no <= Len(matching_keys)
    /\ new_data' = DictPut(new_data, content_key, EmptyDict)
    /\ IF contents_to_process = <<>>
       THEN /\ key_no' = key_no + 1
            /\ UNCHANGED <<pc, rec_no>>
       ELSE /\ rec_no' = 1
            /\ pc' = "record"
            /\ UNCHANGED key_no
    /\ UNCHANGED <<perfile, file_no, top_no, rule_no, sequence_counters, content_config_new,
                   executed_rules_for_item, final_context, outputs, seq_log, visits>>

\* the groups of this top-level rule are done
GroupsDone ==
    /\ pc = "group"
    /\ key_no > Len(matching_keys)
    /\ top_no' = top_no + 1
    /\ pc' = "top"
    /\ UNCHANGED <<perfile, file_no, key_no, rec_no, rule_no, new_data, sequence_counters,
                   content_config_new, executed_rules_for_item, final_context, outputs,
                   seq_log, visits>>

\* a record starts: deep copy, empty executed-rule set, context resolved
StartRecord ==
    /\ pc = "record"
    /\ rec_no <= Len(contents_to_process)
    /\ content_config_new' = contents_to_process[rec_no].cfg
    /\ executed_rules_for_item' = {}
    /\ final_context' =
          process_dynamic_context(
              ContextDefinitions(top_level_rule), contents_to_process[rec_no].cfg,
              [k \in {"content_id", "content_type"} |->
                  IF k = "content_id" THEN VStr(content_id)
                  ELSE VStr(ContentType(top_level_rule))],
              aeval_raises)
    /\ visits' = <<>>
    /\ rule_no' = 1
    /\ pc' = "rule"
    /\ UNCHANGED <<perfile, file_no, top_no, key_no, rec_no, new_data, sequence_counters,
                   outputs, seq_log>>

\* the records of this group are done
RecordsDone ==
    /\ pc = "record"
    /\ rec_no > Len(contents_to_process)
    /\ key_no' = key_no + 1
    /\ pc' = "group"
    /\ UNCHANGED <<perfile, file_no, top_no, rec_no, rule_no, new_data, sequence_counters,
                   content_config_new, executed_rules_for_item, final_context, outputs,
                   seq_log, visits>>

\* the outcome of visiting nested rule rule_no on the record as it is now
outcome ==
    RuleOutcome(nested_rules[rule_no], content_config_new, executed_rules_for_item,
                final_context)

\* what apply_actions does for nested rule rule_no
applied ==
    apply_actions(content_config_new, RuleActions(nested_rules[rule_no]), final_context,
                  sequence_counters, RuleName(nested_rules[rule_no]), sequence_overrides,
                  aeval_raises)

\* the rule set once the list objects named in objs hold what objs gives
RebindRules(rules, objs) ==
    [r \in 1..Len(rules) |->
        IF "context" \in DOMAIN rules[r]
        THEN [rules[r] EXCEPT !.context =
                 [i \in 1..Len(@) |-> [@[i] EXCEPT !.cfg = Rebind(@, objs)]]]
        ELSE rules[r]]

\* the output tree once the list objects named in objs hold what objs gives
RebindTree(tree, objs) ==
    [k \in DOMAIN tree |-> [id \in DOMAIN tree[k] |-> Rebind(tree[k][id], objs)]]

\* a nested rule is passed over: a dependency is missing, its skip flag is
\* set, or a condition fails
SkipRule ==
    /\ pc = "rule"
    /\ rule_no <= Len(nested_rules)
    /\ outcome \in {"dep_skip", "skip_flag", "cond_fail"}
    /\ visits' = Append(visits, outcome)
    /\ rule_no' = rule_no + 1
    /\ UNCHANGED <<perfile, pc, file_no, top_no, key_no, rec_no, new_data, sequence_counters,
                   content_config_new, executed_rules_for_item, final_context, outputs,
                   seq_log>>

\* a nested rule is applied: apply_actions runs, a named rule joins the executed set
ApplyRule ==
    /\ pc = "rule"
    /\ rule_no <= Len(nested_rules)
    /\ outcome = "apply"
    /\ ~applied.err
    /\ content_config_new' = applied.cfg
    /\ sequence_counters' = applied.ctr
    /\ seq_log' = seq_log \o applied.log
    /\ executed_rules_for_item' = ExecutedAfter(executed_rules_for_item, nested_rules[rule_no])
    /\ visits' = Append(visits, "apply")
    /\ rule_no' = rule_no + 1
    /\ final_context' = LiveContext(final_context, applied.obj)
    /\ rules_list' = RebindRules(rules_list, applied.obj)
    /\ new_data' = RebindTree(new_data, applied.obj)
    /\ UNCHANGED <<given, last_counters, call, pc, file_no, top_no, key_no, rec_no, outputs>>

\* an exception leaves evaluate_condition or apply_actions: nothing catches it
\* in convert_single_file or convert_multiple_files, the run ends
Crash ==
    /\ pc = "rule"
    /\ rule_no <= Len(nested_rules)
    /\ (outcome = "raise" \/ (outcome = "apply" /\ applied.err))
    /\ pc' = "crashed"
    /\ IF outcome = "apply"
       THEN /\ content_config_new' = applied.cfg
            /\ sequence_counters' = applied.ctr
            /\ seq_log' = seq_log \o applied.log
            /\ final_context' = LiveContext(final_context, applied.obj)
            /\ rules_list' = RebindRules(rules_list, applied.obj)
            /\ new_data' = RebindTree(new_data, applied.obj)
       ELSE UNCHANGED <<content_config_new, sequence_counters, seq_log, final_context,
                        rules_list, new_data>>
    /\ UNCHANGED <<given, last_counters, call, file_no, top_no, key_no, rec_no, rule_no,
                   executed_rules_for_item, outputs, visits>>

\* all nested rules visited: new_data[content_key][content_id] = content_config_new
StoreRecord ==
    /\ pc = "rule"
    /\ rule_no > Len(nested_rules)
    /\ new_data' = [new_data EXCEPT ![content_key] = DictPut(@, content_id, content_config_new)]
    /\ rec_no' = rec_no + 1
    /\ pc' = "record"
    /\ UNCHANGED <<perfile, file_no, top_no, key_no, rule_no, sequence_counters,
                   content_config_new, executed_rules_for_item, final_context, outputs,
                   seq_log, visits>>

\* all top-level rules processed: the tree is written, the batch moves on
SaveFile ==
    /\ pc = "top"
    /\ top_no > Len(rules_list)
    /\ outputs' = Append(outputs, new_data)
    /\ IF file_no < Len(input_files)
       THEN /\ file_no' = file_no + 1
            /\ pc' = "load"
       ELSE /\ pc' = "done"
            /\ UNCHANGED file_no
    /\ UNCHANGED <<perfile, top_no, key_no, rec_no, rule_no, new_data, sequence_counters,
                   content_config_new, executed_rules_for_item, final_context, seq_log,
                   visits>>

Next ==
    \/ LoadFile
    \/ TopRuleSkip
    \/ TopRuleEnter
    \/ GroupEnter
    \/ GroupsDone
    \/ StartRecord
    \/ RecordsDone
    \/ SkipRule
    \/ ApplyRule
    \/ Crash
    \/ StoreRecord
    \/ SaveFile

Spec == Init /\ [][Next]_vars

\* ------------------------------------------------------------ direct calls

\* MaxCalls bounds the number of direct calls made on one record.
MaxCalls == 1

\* the records, paths and values the direct calls draw from
Records ==
    {VMap(EmptyDict), Sword, Shield, Bow, VMap([tags |-> VList(<<VStr("rare")>>)]),
     VMap([stats |-> VMap([damage |-> VMap([damage |-> VInt(1)])])]),
     VMap([stats |-> VMap([damage |-> VInt(7), speed |-> VInt(2)]), kind |-> VStr("bow")]),
     VMap([damage |-> VInt(0), kind |-> VStr(""), tags |-> VList(<<>>),
           stats |-> VMap(EmptyDict), note |-> VBool(FALSE)])}

Paths ==
    {<<"damage">>, <<"tags">>, <<"note">>, <<"stats">>, <<"stats", "damage">>,
     <<"damage", "x">>, <<"nope">>}

Values ==
    {VInt(1), VStr("rare"), VList(<<VStr("epic"), VStr("new")>>), None,
     VMap([damage |-> VInt(9)])}

\* the conditions a direct evaluation draws from
Conditions ==
    <<[path |-> <<"nope">>, value |-> VInt(5)],
      [path |-> <<"nope">>, value |-> None],
      [path |-> <<"nope">>, exists |-> VBool(FALSE), value |-> None],
      [path |-> <<"nope">>, regex_match |-> VStr("[")],
      [path |-> <<"nope">>, min |-> VStr("high")],
      [path |-> <<"nope">>, exists |-> VBool(FALSE), max |-> VInt(3)],
      [path |-> <<"damage", "x">>, value |-> VInt(5)],
      [path |-> <<"nope">>, exists |-> VBool(FALSE)],
      [path |-> <<"damage">>, min |-> VInt(3)],
      [path |-> <<"damage">>, max |-> VStr("high")],
      [path |-> <<"kind">>, regex_match |-> VStr("sw")]>>

\* the expression texts of the drawn set entries and context definitions:
\* damage * 2, data['damage'] * 2, context['base'] * 2, context['gone'],
\* context['content_id']
BareDouble == Mul(Name("damage"), Lit(VInt(2)))

DataDouble == Mul(Item("data", "damage"), Lit(VInt(2)))

BaseDouble == Mul(Item("context", "base"), Lit(VInt(2)))

\* the set blocks a direct call draws from: an expression entry, then a literal
SetBlocks ==
    <<<<At(<<"damage">>, Expr(BareDouble)), At(<<"after">>, VInt(1))>>,
      <<At(<<"damage">>, ExprDefault(BareDouble, VInt(0))), At(<<"after">>, VInt(1))>>,
      <<At(<<"fresh">>, Expr(BareDouble)), At(<<"after">>, VInt(1))>>,
      <<At(<<"fresh">>, ExprDefault(BareDouble, VStr("none"))), At(<<"after">>, VInt(1))>>,
      <<At(<<"damage">>, Expr(DataDouble)), At(<<"after">>, VInt(1))>>,
      <<At(<<"damage">>, ExprDefault(DataDouble, VInt(0))), At(<<"after">>, VInt(1))>> >>

\* the context blocks a direct call draws from, in declaration order
ContextBlocks ==
    <<<<[name |-> "base", cfg |-> VInt(4)], [name |-> "tier", cfg |-> Expr(BaseDouble)]>>,
      <<[name |-> "tier", cfg |-> Expr(BaseDouble)], [name |-> "base", cfg |-> VInt(4)]>>,
      <<[name |-> "base", cfg |-> Expr(Item("context", "gone"))],
        [name |-> "tier", cfg |-> ExprDefault(BaseDouble, VInt(0))],
        [name |-> "last", cfg |-> Expr(Item("context", "tier"))]>>,
      <<[name |-> "base", cfg |-> ExprDefault(Item("context", "gone"), VInt(3))],
        [name |-> "tier", cfg |-> Expr(BaseDouble)]>>,
      <<[name |-> "id", cfg |-> Expr(Item("context", "content_id"))],
        [name |-> "base", cfg |-> Expr(DataDouble)]>> >>

\* base_context of convert_single_file for the record of a direct call
BaseContext ==
    [k \in {"content_id", "content_type"} |->
        IF k = "content_id" THEN VStr("sword") ELSE VStr("item")]

\* what a direct call leaves alone: the state of the batch conversion
batch ==
    <<inputs, pc, file_no, top_no, key_no, rec_no, rule_no, new_data, sequence_counters,
      executed_rules_for_item, outputs, seq_log, visits, last_counters>>

CallInit ==
    /\ rules_config_path = 1
    /\ rules_list = RuleSetNo(1)
    /\ input_files = <<Trees[1]>>
    /\ sequence_overrides = Overrides[1]
    /\ aeval_raises \in BOOLEAN
    /\ pc = "call"
    /\ file_no = 1
    /\ top_no = 1
    /\ key_no = 1
    /\ rec_no = 1
    /\ rule_no = 1
    /\ new_data = EmptyDict
    /\ sequence_counters = EmptyDict
    /\ content_config_new \in Records
    /\ executed_rules_for_item = {}
    /\ final_context = BaseContext
    /\ outputs = <<>>
    /\ seq_log = <<>>
    /\ visits = <<>>
    /\ last_counters = EmptyDict
    /\ call = NoCall

\* apply_actions on the record with a block that holds one action kind
ApplyOne(kind, payload) ==
    apply_actions(content_config_new, <<Act(kind, payload)>>, final_context, sequence_counters,
                  VStr("direct"), sequence_overrides, aeval_raises)

\* set_nested_value(record, path, value)
CallSetValue ==
    /\ call.n < MaxCalls
    /\ \E path \in Paths, value \in Values :
          /\ content_config_new' = set_nested_value(content_config_new, path, value)
          /\ call' = Called(call.n + 1, "set_nested_value", path, <<>>, value, <<>>,
                            content_config_new, "")
    /\ UNCHANGED <<batch, final_context>>

\* get_nested_value(record, path); the value it returns is kept in call.value
CallGetValue ==
    /\ call.n < MaxCalls
    /\ \E path \in Paths :
          call' = Called(call.n + 1, "get_nested_value", path, <<>>,
                         get_nested_value(content_config_new, path), <<>>, content_config_new, "")
    /\ UNCHANGED <<batch, final_context, content_config_new>>

\* delete_nested_value(record, path)
CallDeleteValue ==
    /\ call.n < MaxCalls
    /\ \E path \in Paths :
          /\ content_config_new' = delete_nested_value(content_config_new, path)
          /\ call' = Called(call.n + 1, "delete_nested_value", path, <<>>, None, <<>>,
                            content_config_new, "")
    /\ UNCHANGED <<batch, final_context>>

\* apply_actions with {rename: {old: new}}
CallRename ==
    /\ call.n < MaxCalls
    /\ \E old \in Paths, new \in Paths :
          /\ content_config_new' = ApplyOne("rename", <<[old |-> old, new |-> new]>>).cfg
          /\ call' = Called(call.n + 1, "rename", old, new, None, <<>>, content_config_new, "")
    /\ UNCHANGED <<batch, final_context>>

\* apply_actions with {append: {path: value}}
CallAppend ==
    /\ call.n < MaxCalls
    /\ \E path \in Paths, value \in Values :
          /\ content_config_new' = ApplyOne("append", <<At(path, value)>>).cfg
          /\ call' = Called(call.n + 1, "append", path, <<>>, value, <<>>, content_config_new, "")
    /\ UNCHANGED <<batch, final_context>>

\* apply_actions with {prepend: {path: value}}
CallPrepend ==
    /\ call.n < MaxCalls
    /\ \E path \in Paths, value \in Values :
          /\ content_config_new' = ApplyOne("prepend", <<At(path, value)>>).cfg
          /\ call' = Called(call.n + 1, "prepend", path, <<>>, value, <<>>, content_config_new, "")
    /\ UNCHANGED <<batch, final_context>>

\* apply_actions with a set block of two entries
CallSet ==
    /\ call.n < MaxCalls
    /\ \E b \in 1..Len(SetBlocks) :
          /\ content_config_new' = ApplyOne("set", SetBlocks[b]).cfg
          /\ call' = Called(call.n + 1, "set", SetBlocks[b][1].path, <<>>, None, <<b>>,
                            content_config_new, "")
    /\ UNCHANGED <<batch, final_context>>

\* the loop over a rule's conditions, on one condition or on two
CallConditions ==
    /\ call.n < MaxCalls
    /\ \E i \in 1..Len(Conditions), j \in {0, 9, 10} :
          LET arg == IF j = 0 THEN <<i>> ELSE <<i, j>>
              conditions == [k \in 1..Len(arg) |-> Conditions[arg[k]]]
          IN  call' = Called(call.n + 1, "conditions", <<>>, <<>>, None, arg, content_config_new,
                             ConditionsFrom(conditions, 1, content_config_new, final_context))
    /\ UNCHANGED <<batch, final_context, content_config_new>>

\* process_dynamic_context on the record, from the base context
CallContext ==
    /\ call.n < MaxCalls
    /\ \E b \in 1..Len(ContextBlocks) :
          /\ final_context' = process_dynamic_context(ContextBlocks[b], content_config_new,
                                                      BaseContext, aeval_raises)
          /\ call' = Called(call.n + 1, "context", <<>>, <<>>, None, <<b>>, content_config_new, "")
    /\ UNCHANGED <<batch, content_config_new>>

CallNext ==
    \/ CallGetValue
    \/ CallSetValue
    \/ CallDeleteValue
    \/ CallRename
    \/ CallAppend
    \/ CallPrepend
    \/ CallSet
    \/ CallConditions
    \/ CallContext

CallSpec == CallInit /\ [][CallNext]_vars

\* ------------------------------------------------------------ properties

\* the conversion of the whole batch has ended normally
Done == pc = "done"

\* two sequence uses name the same counter: the same id, or no id and the
\* same rule name and path
SameCounter(u, w) ==
    /\ u.shared = w.shared
    /\ IF u.shared THEN u.id = w.id ELSE (u.rule = w.rule /\ u.path = w.path)

\* the number of uses of u's counter among the first n entries of a log
UsesBefore(log, u, n) == Cardinality({j \in 1..n : SameCounter(log[j], u)})

\* the index of the latest use of u's counter before entry i (0 when none)
PrevUse(log, u, i) ==
    IF \E j \in 1..(i - 1) : SameCounter(log[j], u)
    THEN CHOOSE j \in 1..(i - 1) :
            SameCounter(log[j], u) /\ \A m \in (j + 1)..(i - 1) : ~SameCounter(log[m], u)
    ELSE 0

\* every use of u's counter in the log has the same start and step
ConstantUses(log, u) ==
    \A i \in 1..Len(log) :
        SameCounter(log[i], u) => (log[i].start = u.start /\ log[i].step = u.step)

\* C1 as stated: within one file conversion, the values written for an isolated
\* counter key with constant start and step are start, start+step,
\* start+2*step, ... in application order.
C1_StartThenSteps ==
    \A i \in 1..Len(seq_log) :
        LET u == seq_log[i]
        IN  (~u.shared /\ ConstantUses(seq_log, u))
                => u.value = u.start + u.step * UsesBefore(seq_log, u, i - 1)

\* the first value of a counter: the override given for its id or, without an
\* id, for its path; start when there is none
FirstValue(u) ==
    LET override_key == IF u.shared THEN u.id ELSE u.path
    IN  IF override_key \in DOMAIN sequence_overrides
        THEN sequence_overrides[override_key]
        ELSE u.start

\* C1 amended: within one file conversion, the values written for an isolated
\* counter key with constant start and step are first, first+step,
\* first+2*step, ... in application order, whatever other keys are used in
\* between, where first is the override supplied for the path if there is one
\* and start otherwise.
C1_FirstThenSteps ==
    \A i \in 1..Len(seq_log) :
        LET u == seq_log[i]
        IN  (~u.shared /\ ConstantUses(seq_log, u))
                => u.value = FirstValue(u) + u.step * UsesBefore(seq_log, u, i - 1)

\* C1 witness: an isolated key used three times, with uses of another isolated
\* key on the same path and of a shared id in between
C1_Witness ==
    \E i, j, m, n \in 1..Len(seq_log) :
        /\ i < j /\ j < m /\ m < n
        /\ ~seq_log[i].shared /\ SameCounter(seq_log[n], seq_log[i])
        /\ UsesBefore(seq_log, seq_log[i], n) = 3
        /\ ~seq_log[j].shared /\ seq_log[j].rule # seq_log[i].rule
        /\ seq_log[j].path = seq_log[i].path
        /\ seq_log[m].shared
        /\ seq_log[n].value = FirstValue(seq_log[n]) + 2 * seq_log[n].step

RECURSIVE StepSum(_, _, _)
\* the sum of the steps of the uses of counter key k among log[1..n]
StepSum(log, k, n) ==
    IF n = 0 THEN 0
    ELSE StepSum(log, k, n - 1) + (IF log[n].key = k THEN log[n].step ELSE 0)

\* the sequence uses a step adds to the log
NewUses == SubSeq(seq_log', Len(seq_log) + 1, Len(seq_log'))

\* C2: within one file conversion no step removes a counter key; a key that
\* existed before the step changes by exactly the sum of the steps of its uses
\* in that step (so not at all when it is not used), and a key the step creates
\* ends at its first written value plus the steps of its uses.
C2_CountersPersistAndAdvance ==
    [][pc # "load" =>
        /\ DOMAIN sequence_counters \subseteq DOMAIN sequence_counters'
        /\ \A k \in DOMAIN sequence_counters' :
              IF k \in DOMAIN sequence_counters
              THEN sequence_counters'[k]
                       = sequence_counters[k] + StepSum(NewUses, k, Len(NewUses))
              ELSE \E i \in 1..Len(NewUses) :
                      /\ NewUses[i].key = k
                      /\ \A j \in 1..(i - 1) : NewUses[j].key # k
                      /\ sequence_counters'[k]
                             = NewUses[i].value + StepSum(NewUses, k, Len(NewUses))]_vars

\* C2 witness: a counter with a step other than 1 has been used a second time
\* while at least two other counters exist
C2_Witness ==
    /\ Cardinality(DOMAIN sequence_counters) >= 3
    /\ \E i \in 1..Len(seq_log) :
          /\ seq_log[i].step \notin {0, 1}
          /\ ~seq_log[i].created
          /\ sequence_counters[seq_log[i].key] = seq_log[i].value + seq_log[i].step

\* the override key of a use: the id if given, else the path
OverrideKey(u) == IF u.shared THEN u.id ELSE u.path

\* the override key of a use is among the overrides supplied
Overridden(u) == OverrideKey(u) \in DOMAIN sequence_overrides

\* C3: every use of a counter after its first use in the file writes the stored
\* counter value (the value of the latest earlier use plus that use's step),
\* whether or not an override is supplied for its override key, also when the
\* rules run again over the same counter state.
C3_OverrideOnlyAtCreation ==
    \A i \in 1..Len(seq_log) :
        LET u == seq_log[i]
            j == PrevUse(seq_log, u, i)
        IN  j > 0 => /\ u.value = seq_log[j].value + seq_log[j].step
                     /\ u.written \in {VInt(u.value), VStr("item_{counter}"),
                                       [t |-> "fstr", f |-> "item_{counter}", n |-> u.value]}

\* C3 witness: a counter with an override is used again by the second
\* top-level rule, which runs the same nested rule over the same counter state
C3_Witness ==
    /\ top_no = 2
    /\ \E i \in 1..Len(seq_log) :
          /\ Overridden(seq_log[i])
          /\ PrevUse(seq_log, seq_log[i], i) > 0
          /\ seq_log[i].value # sequence_overrides[OverrideKey(seq_log[i])]
          /\ UsesBefore(seq_log, seq_log[i], i) >= 3

\* the record stored in the output under a group key and content id
Stored(key, id) == new_data[key][id]

IsStored(key, id) == key \in DOMAIN new_data /\ id \in DOMAIN new_data[key]

\* the sum of the steps of the uses of u's counter among log[1..n]
RECURSIVE StepsBefore(_, _, _)
StepsBefore(log, u, n) ==
    IF n = 0 THEN 0
    ELSE StepsBefore(log, u, n - 1) + (IF SameCounter(log[n], u) THEN log[n].step ELSE 0)

\* the first use of u's counter in the log
FirstUse(log, u) == log[CHOOSE i \in 1..Len(log) :
                          SameCounter(log[i], u) /\ UsesBefore(log, u, i) = 1]

\* C4: the uses of one id share one counter whatever rule and record they come
\* from: each writes the first value of the id plus the steps of all earlier
\* uses of the id.  With id custom-model-data, start 1, step 1 and the override
\* custom-model-data: 50000, the first record gets 50000 and the next 50001;
\* two rules naming the id on the same record get 50000 and 50001.
C4_SharedIdCounter ==
    /\ \A i \in 1..Len(seq_log) :
          LET u == seq_log[i]
          IN  u.shared => u.value = FirstValue(FirstUse(seq_log, u))
                                        + StepsBefore(seq_log, u, i - 1)
    /\ (rules_config_path = 6 /\ sequence_overrides = Overrides[3]) =>
          /\ IsStored("items", "sword") =>
                get_nested_value(Stored("items", "sword"), <<"model", "cmd">>) = VInt(50000)
          /\ IsStored("items", "shield") =>
                get_nested_value(Stored("items", "shield"), <<"model", "cmd">>) = VInt(50001)
    /\ (rules_config_path = 5 /\ sequence_overrides = Overrides[3] /\ top_no = 1) =>
          /\ IsStored("items", "sword") =>
                /\ get_nested_value(Stored("items", "sword"), <<"idx">>) = VInt(50000)
                /\ get_nested_value(Stored("items", "sword"), <<"uid">>) = VInt(50001)
          /\ IsStored("items", "shield") =>
                get_nested_value(Stored("items", "shield"), <<"idx">>) = VInt(50002)

\* C4 witness: the scenario has run to its end on a tree with two records
C4_Witness ==
    /\ Done
    /\ rules_config_path = 6
    /\ sequence_overrides = Overrides[3]
    /\ IsStored("items", "shield")
    /\ get_nested_value(Stored("items", "shield"), <<"model", "cmd">>) = VInt(50001)

\* C5: every file conversion starts with an empty counter state, and the first
\* use of a counter in a file writes start, or the override when one is
\* supplied, whatever the previous files did.
C5_FreshCountersPerFile ==
    /\ (pc = "top" /\ top_no = 1) => sequence_counters = EmptyDict
    /\ \A i \in 1..Len(seq_log) :
          PrevUse(seq_log, seq_log[i], i) = 0 => seq_log[i].value = FirstValue(seq_log[i])

\* C5 witness: the second file of a batch uses a counter the first file had
\* advanced, and writes its first value again
C5_Witness ==
    /\ file_no = 2
    /\ \E i \in 1..Len(seq_log) :
          /\ seq_log[i].key \in DOMAIN last_counters
          /\ PrevUse(seq_log, seq_log[i], i) = 0
          /\ last_counters[seq_log[i].key] # seq_log[i].value
          /\ seq_log[i].value = FirstValue(seq_log[i])

\* the names in a rule's depends_on (a single name counts as one)
DepNames(rule) ==
    IF "depends_on" \notin DOMAIN rule THEN {}
    ELSE IF IsList(rule.depends_on)
         THEN {rule.depends_on.v[i] : i \in 1..Len(rule.depends_on.v)}
         ELSE {rule.depends_on}

\* the rule carries a name
Named(rule) == "name" \in DOMAIN rule /\ rule.name \notin {None, VStr("")}

\* the names of the named rules among the first n nested rules that were applied
\* to this record
AppliedNames(n) ==
    {nested_rules[j].name : j \in {j \in 1..n : visits[j] = "apply" /\ Named(nested_rules[j])}}

\* C6: while a record is processed, a nested rule was applied only if every
\* name in its depends_on was then in the executed-rule set; that set is empty
\* when the record starts and is exactly the set of names of the named rules
\* applied earlier to this record (skipped rules add nothing).
C6_DependencyGate ==
    pc = "rule" =>
        /\ Len(visits) = rule_no - 1
        /\ executed_rules_for_item = AppliedNames(Len(visits))
        /\ \A i \in 1..Len(visits) :
              visits[i] = "apply" => DepNames(nested_rules[i]) \subseteq AppliedNames(i - 1)

\* C6 witness: on one record a rule with two dependencies was applied, a rule
\* was skipped for a missing dependency, and a rule with a skip flag was skipped
C6_Witness ==
    /\ pc = "rule"
    /\ \E i, j, k \in 1..Len(visits) :
          /\ visits[i] = "apply" /\ Cardinality(DepNames(nested_rules[i])) = 2
          /\ visits[j] = "dep_skip"
          /\ visits[k] = "skip_flag" /\ Named(nested_rules[k])
          /\ nested_rules[k].name \notin executed_rules_for_item

\* the output tree of file f holds record id of group key
InOutput(f, key, id) == key \in DOMAIN outputs[f] /\ id \in DOMAIN outputs[f][key]

\* a top-level rule of the rule set selects the group key
Selected(key) ==
    \E t \in 1..Len(rules_list) :
        ContentType(rules_list[t]) # "" /\ KeyMatches(ContentType(rules_list[t]), key)

\* C7 as stated: with an empty rule set every record of the input is in the
\* output, equal to itself.
C7_EmptyRuleSetIdentity ==
    (Done /\ rules_config_path = 1) =>
        \A f \in 1..Len(outputs) : \A g \in 1..Len(input_files[f]) :
            \A r \in 1..Len(input_files[f][g].group) :
                LET rec == input_files[f][g].group[r]
                IN  /\ InOutput(f, input_files[f][g].key, rec.id)
                    /\ outputs[f][input_files[f][g].key][rec.id] = rec.cfg

\* C7 amended: when no top-level rule has nested rules, every record of a group
\* that some top-level rule selects is in the output equal to itself, and the
\* groups no rule selects are not in the output (with no top-level rule at
\* all, the output tree is empty).
C7_NoNestedRulesIdentity ==
    (Done /\ \A t \in 1..Len(rules_list) : NestedRules(rules_list[t]) = <<>>) =>
        \A f \in 1..Len(outputs) : \A g \in 1..Len(input_files[f]) :
            LET key == input_files[f][g].key
                group == input_files[f][g].group
            IN  IF Selected(key)
                THEN \A r \in 1..Len(group) :
                        /\ InOutput(f, key, group[r].id)
                        /\ outputs[f][key][group[r].id] = group[r].cfg
                ELSE key \notin DOMAIN outputs[f]

\* C7 witness: a rule set whose only top-level rule has no nested rules has
\* copied the records of two groups
C7_Witness ==
    /\ Done
    /\ rules_config_path = 2
    /\ InOutput(1, "items2", "bow") /\ outputs[1]["items2"]["bow"] = Bow
    /\ InOutput(1, "items", "shield") /\ outputs[1]["items"]["shield"] = Shield
    /\ "misc" \notin DOMAIN outputs[1]

\* the tree {"items": {"sword": {"damage": d}}}
SwordTree(d) == [k \in {"items"} |-> [i \in {"sword"} |-> VMap([damage |-> d])]]

\* C8 as stated: the scenario with the set expression "damage * 2" yields
\* {"items": {"sword": {"damage": 10}}}.
C8_BareNameScenario ==
    (Done /\ rules_config_path = 3 /\ input_files = <<Trees[1]>>)
        => outputs[1] = SwordTree(VInt(10))

\* C8 amended: the scenario yields {"items": {"sword": {"damage": 10}}} when
\* the set expression reads the field through the record symbol,
\* data['damage'] * 2; the bare name damage is no symbol of the expression, so
\* "damage * 2" fails to evaluate and damage is left at 5 or set to null.
C8_DataItemScenario ==
    /\ (Done /\ rules_config_path = 4 /\ input_files = <<Trees[1]>>)
          => outputs[1] = SwordTree(VInt(10))
    /\ (Done /\ rules_config_path = 3 /\ input_files = <<Trees[1]>>)
          => outputs[1] \in {SwordTree(VInt(5)), SwordTree(None)}

\* C8 witness: the scenario with data['damage'] * 2 has run to its end
C8_Witness ==
    /\ Done
    /\ rules_config_path = 4
    /\ input_files = <<Trees[1]>>
    /\ outputs = <<SwordTree(VInt(10))>>

RECURSIVE PresentFrom(_, _, _)
\* every segment of the path from i on is a key of the mapping reached
PresentFrom(current, parts, i) ==
    IF i > Len(parts) THEN TRUE
    ELSE /\ IsDict(current)
         /\ parts[i] \in DOMAIN current.v
         /\ PresentFrom(current.v[parts[i]], parts, i + 1)

\* the field at the path is present in the record, whatever its value
Present(data, path) == PresentFrom(data, path, 1)

\* the record as it was when its processing started
original == contents_to_process[rec_no].cfg

\* C9: a condition that holds only exists: false passes when the field at its
\* path is absent and fails when the field is present with any value, null
\* included.
C9_ExistsFalse ==
    (pc = "rule" /\ rules_config_path = 8) =>
        \A i \in 1..Len(visits) :
            LET c == nested_rules[i].conditions[1]
            IN  (DOMAIN c = {"path", "exists"} /\ c.exists = VBool(FALSE))
                    => (visits[i] = "apply" <=> ~Present(original, c.path))

\* the rule set holds the block of six action kinds in written order n
OrderRuleSet(n) == rules_config_path = NumRuleSets + n

\* the list of strings at a path of the original record (empty when absent)
OriginalList(path) ==
    IF Present(original, path) THEN get_nested_value(original, path).v ELSE <<>>

\* C10: whatever order the six kinds are written in, the block has the effect
\* of delete, then rename, then set, then append, then prepend, then sequence:
\* a path that is deleted and set holds the set value; a path set in the block
\* is not renamed away; appended and prepended elements surround the value set
\* in the block; a renamed list gets the appended element; the sequence value
\* replaces the set value.  With skip true the block changes neither the
\* record nor the counters.
C10_FixedOrder ==
    (pc = "rule" /\ visits = <<"apply">> /\ \E n \in 1..Len(WrittenOrders) : OrderRuleSet(n)) =>
        LET cfg == content_config_new
            skipped == apply_actions(cfg, Append(RuleActions(nested_rules[1]),
                                                 Act("skip", VBool(TRUE))),
                                     final_context, sequence_counters, VStr("order"),
                                     sequence_overrides, aeval_raises)
        IN  /\ get_nested_value(cfg, <<"damage">>) = VInt(9)
            /\ get_nested_value(cfg, <<"fresh">>) = VInt(1)
            /\ ~Present(cfg, <<"moved">>)
            /\ ~Present(cfg, <<"tags">>)
            /\ get_nested_value(cfg, <<"labels">>)
                   = VList(OriginalList(<<"tags">>) \o <<VStr("new")>>)
            /\ get_nested_value(cfg, <<"list">>)
                   = VList(<<VStr("first"), VStr("mid"), VStr("last")>>)
            /\ get_nested_value(cfg, <<"cmd">>).t = "int"
            /\ skipped.cfg = cfg
            /\ skipped.ctr = sequence_counters
            /\ skipped.log = <<>>

\* C10 witness: the block written in the reverse order was applied to a record
\* that has tags
C10_Witness ==
    /\ pc = "rule"
    /\ visits = <<"apply">>
    /\ OrderRuleSet(2)
    /\ Present(original, <<"tags">>)
    /\ get_nested_value(content_config_new, <<"labels">>) = VList(<<VStr("old"), VStr("new")>>)
    /\ get_nested_value(content_config_new, <<"cmd">>) \in {VInt(3), VInt(4), VInt(100), VInt(101)}

\* a direct call of fn has been made
Made(fn) == pc = "call" /\ call.fn = fn

\* C11: a rename old -> new whose old path is absent from the record leaves
\* the whole record unchanged: nothing is created at new, nothing is deleted.
C11_RenameAbsentUnchanged ==
    (Made("rename") /\ ~Present(call.before, call.path)) => content_config_new = call.before

\* an absent old path was renamed to a path the record holds
C11_Witness ==
    /\ Made("rename")
    /\ ~Present(call.before, call.path)
    /\ Present(call.before, call.to)
    /\ content_config_new = call.before

\* C12: after set(R, P, V) the getter get(R, P) returns V.
C12_SetThenGet ==
    Made("set_nested_value") => get_nested_value(content_config_new, call.path) = call.value

\* a value was set under a field that held a number
C12_Witness ==
    /\ Made("set_nested_value")
    /\ call.path = <<"damage", "x">>
    /\ IsNumber(get_nested_value(call.before, <<"damage">>))
    /\ call.value = VStr("rare")
    /\ get_nested_value(content_config_new, call.path) = VStr("rare")

\* the path without its last segment
ParentPath(path) == SubSeq(path, 1, Len(path) - 1)

\* C13: delete(R, P) leaves R unchanged when P does not fully resolve in R;
\* when P resolves it removes the final key from its mapping and changes
\* nothing else: writing the old value back at P gives R again.
C13_DeleteExactlyFinalKey ==
    Made("delete_nested_value") =>
        LET was == get_nested_value(call.before, ParentPath(call.path))
            is == get_nested_value(content_config_new, ParentPath(call.path))
        IN  IF Present(call.before, call.path)
            THEN /\ IsDict(is)
                 /\ DOMAIN is.v = DOMAIN was.v \ {call.path[Len(call.path)]}
                 /\ set_nested_value(content_config_new, call.path,
                                     get_nested_value(call.before, call.path)) = call.before
            ELSE content_config_new = call.before

\* a nested field that resolves was deleted from a record with other fields
C13_Witness ==
    /\ Made("delete_nested_value")
    /\ call.path = <<"stats", "damage">>
    /\ Present(call.before, call.path)
    /\ Present(call.before, <<"kind">>)
    /\ Present(content_config_new, <<"stats">>)
    /\ ~Present(content_config_new, call.path)

\* the expression of the first entry of set block b does not evaluate on the
\* record: damage is no symbol, and data['damage'] * 2 needs a number
SetFails(b, record) ==
    b \in 1..4 \/ ~IsNumber(get_nested_value(record, <<"damage">>))

\* C14: when the expression of a set entry or of a context definition fails
\* to evaluate, a given default_value is written to the path or the context
\* variable; without default_value the path is left as it was and the variable
\* gets no entry; the entries that follow are still processed.
C14_DefaultOrSkip ==
    /\ (Made("set") /\ SetFails(call.arg[1], call.before)) =>
          LET entry == SetBlocks[call.arg[1]][1]
          IN  /\ IF "default_value" \in DOMAIN entry.val
                 THEN get_nested_value(content_config_new, entry.path) = entry.val.default_value
                 ELSE /\ get_nested_value(content_config_new, entry.path)
                            = get_nested_value(call.before, entry.path)
                      /\ Present(content_config_new, entry.path)
                            <=> Present(call.before, entry.path)
              /\ get_nested_value(content_config_new, <<"after">>) = VInt(1)
    /\ (Made("context") /\ call.arg = <<3>>) =>
          /\ "base" \notin DOMAIN final_context
          /\ "tier" \in DOMAIN final_context /\ final_context["tier"] = VInt(0)
          /\ "last" \in DOMAIN final_context /\ final_context["last"] = VInt(0)
    /\ (Made("context") /\ call.arg = <<4>>) =>
          /\ "base" \in DOMAIN final_context /\ final_context["base"] = VInt(3)
          /\ "tier" \in DOMAIN final_context /\ final_context["tier"] = VInt(6)

\* C15: no failure inside condition evaluation, expression evaluation or
\* action application aborts the file: the conversion of every record tree
\* under every rule set goes on to return a transformed tree.
C15_NeverAborts == pc # "crashed"

\* the elements an append or prepend adds: a single value counts as a
\* one-element sequence
AddedElements(value) == IF value.t = "list" THEN value.v ELSE <<value>>

\* C16: append/prepend on a path: if the path is absent an empty sequence is
\* created there and the added elements are put in it; if the path holds a
\* non-sequence the record is left unchanged; otherwise the added elements are
\* concatenated at the end (append) or at the beginning (prepend), both
\* groups of elements keeping their order.
C16_AppendPrepend ==
    (Made("append") \/ Made("prepend")) =>
        LET held == get_nested_value(call.before, call.path)
            added == AddedElements(call.value)
            joined(old) == IF call.fn = "append" THEN old \o added ELSE added \o old
        IN  IF ~Present(call.before, call.path)
            THEN content_config_new = set_nested_value(call.before, call.path, VList(joined(<<>>)))
            ELSE IF ~IsList(held)
                 THEN content_config_new = call.before
                 ELSE content_config_new
                          = set_nested_value(call.before, call.path, VList(joined(held.v)))

\* C17: a rename old -> new whose old path resolves to a value V moves the
\* value, for every pair of paths (new equal to old, new under old and old
\* under new included): afterwards the record holds V at new, and old no
\* longer resolves when it differs from new.
C17_RenameMoves ==
    (Made("rename") /\ Present(call.before, call.path)) =>
        /\ get_nested_value(content_config_new, call.to)
              = get_nested_value(call.before, call.path)
        /\ call.path # call.to => ~Present(content_config_new, call.path)

\* the group keys of input tree f
TreeKeys(f) == {input_files[f][i].key : i \in 1..Len(input_files[f])}

\* the content types the top-level rules of the rule set declare
DeclaredTypes ==
    {ContentType(rules_list[r]) : r \in 1..Len(rules_list)} \ {""}

\* the keys of the modelled trees that match ^Ts?\d*$
OptionalSKeys(T) ==
    CASE T = "item" -> {"item", "items", "item2", "items2"}
      [] T = "items" -> {"items", "items2"}
      [] T = "block" -> {"blocks"}
      [] OTHER -> {}

\* the keys of the modelled trees that match ^B\d*$, B being T when T ends in
\* s and T followed by s otherwise
PluralKeys(T) ==
    CASE T = "item" -> {"items", "items2"}
      [] T = "items" -> {"items", "items2"}
      [] T = "block" -> {"blocks"}
      [] OTHER -> {}

ChecksValue(c) == DOMAIN c \cap {"value", "regex_match", "min", "max"} # {}

\* the conditions a direct evaluation was given
Given == [k \in 1..Len(call.arg) |-> Conditions[call.arg[k]]]

ClaimedContext(b, record) ==
    LET damage == get_nested_value(record, <<"damage">>)
    IN  CASE b = 1 -> DictPut(DictPut(BaseContext, "base", VInt(4)), "tier", VInt(8))
          [] b = 2 -> DictPut(BaseContext, "base", VInt(4))
          [] b = 3 -> DictPut(DictPut(BaseContext, "tier", VInt(0)), "last", VInt(0))
          [] b = 4 -> DictPut(DictPut(BaseContext, "base", VInt(3)), "tier", VInt(6))
          [] OTHER -> IF IsNumber(damage)
                      THEN DictPut(DictPut(BaseContext, "id", VStr("sword")),
                                   "base", VInt(2 * NumOf(damage)))
                      ELSE DictPut(BaseContext, "id", VStr("sword"))

\* C20: the context resolver processes the definitions in declaration order
\* starting from {content_id, content_type}; the expression of definition k
\* sees the base entries and the results of the definitions before it that
\* were not skipped; a definition whose expression fails without
\* default_value creates no entry in the final context.
C20_ContextInOrder ==
    Made("context") => final_context = ClaimedContext(call.arg[1], call.before)

\* the rule has no usable name: name is missing, empty or null
Nameless(rule) == "name" \notin DOMAIN rule \/ ~Truthy(rule.name)

\* C21: a sequence entry without id inside a rule whose name is missing,
\* empty or null is an error for that path only: no counter is created or
\* advanced for it, the record is not written at that path, and the other
\* sequence entries of the block are still processed.
C21_NamelessIsolatedSkipped ==
    /\ \A i \in 1..Len(seq_log) :
          ~seq_log[i].shared => (Truthy(seq_log[i].rule) /\ seq_log[i].rule # VStr("Unnamed Rule"))
    /\ (rules_config_path = 10 /\ pc = "rule") =>
          /\ \A path \in {<<"blank">>, <<"nul">>, <<"anon">>} : ~Present(content_config_new, path)
          /\ (Len(visits) >= 1 => Present(content_config_new, <<"uid">>))
          /\ (Len(visits) >= 3 => Present(content_config_new, <<"uid2">>))

\* one step of the rule driver on a record: the next nested rule is visited
\* and the driver moves on to the rule after it, or, every rule visited, the
\* record is stored under its group key and content id
VisitOrStore ==
    IF rule_no <= Len(nested_rules)
    THEN /\ pc' = "rule"
         /\ rule_no' = rule_no + 1
         /\ \E v \in {"dep_skip", "skip_flag", "cond_fail", "apply"} : visits' = Append(visits, v)
    ELSE /\ pc' = "record"
         /\ content_key \in DOMAIN new_data'
         /\ content_id \in DOMAIN new_data'[content_key]
         /\ new_data'[content_key][content_id] = content_config_new

\* C22: for each record the rule driver visits every nested rule exactly
\* once, in declaration order, each visit ending in skipped or applied with
\* no return to an earlier rule; after the last rule the mutated record is
\* stored in the output under the same group key and content id.
C22_EveryRuleOnceThenStore == [][pc = "rule" => VisitOrStore]_vars

\* the action block of the rule holds skip: true
SkipTrue(rule) ==
    /\ "actions" \in DOMAIN rule
    /\ \E i \in 1..Len(rule.actions) :
          rule.actions[i].k = "skip" /\ rule.actions[i].v = VBool(TRUE)

\* the names of the nested rules that hold skip: true
SkippedNames == {nested_rules[i].name : i \in {j \in 1..Len(nested_rules) : SkipTrue(nested_rules[j])}}

\* every visited rule that depends on a rule with skip: true was skipped
DependentsSkipped ==
    pc = "rule" =>
        \A i \in 1..Len(visits) :
            (\E d \in DepNames(nested_rules[i]) : d \in SkippedNames) => visits[i] = "dep_skip"

\* C23: a nested rule whose actions.skip is true is never applied: the visit
\* leaves the record, the counters and the executed-rule set unchanged, its
\* conditions are not evaluated (one that cannot be evaluated raises
\* nothing), and every rule that depends on it is skipped as well.
C23_SkipFlagNeverApplied ==
    [][/\ (pc = "rule" /\ rule_no <= Len(nested_rules) /\ SkipTrue(nested_rules[rule_no])) =>
            /\ pc' = "rule"
            /\ visits'[Len(visits')] \in {"skip_flag", "dep_skip"}
            /\ content_config_new' = content_config_new
            /\ sequence_counters' = sequence_counters
            /\ executed_rules_for_item' = executed_rules_for_item
       /\ DependentsSkipped']_vars

\* the rule with skip: true and the rule that depends on it were passed over,
\* the rule with skip: false and its dependent were applied
C23_Witness ==
    /\ rules_config_path = 11
    /\ pc = "rule"
    /\ visits = <<"skip_flag", "dep_skip", "apply", "apply">>
    /\ ~Present(content_config_new, <<"off">>)
    /\ get_nested_value(content_config_new, <<"cmd">>) \in {VInt(1), VInt(2), VInt(100), VInt(101)}

\* path a is path b or leads to it
IsPrefix(a, b) == Len(a) <= Len(b) /\ SubSeq(b, 1, Len(a)) = a

\* the paths at which a record is compared before and after a call
ProbePaths ==
    Paths \cup {<<"kind">>, <<"stats", "speed">>, <<"stats", "damage", "damage">>}

\* C24: set(R, P, V) replaces every intermediate segment of P that is missing
\* or holds a non-mapping by a fresh empty mapping, assigns V at the final
\* segment, and leaves unchanged every key of R that is not on P: the
\* mapping at each prefix of P keeps its keys and gains the next segment,
\* and every path that leaves P resolves as before.
C24_SetFrame ==
    Made("set_nested_value") =>
        LET P == call.path
            keys(data, pre) ==
                IF Present(data, pre) /\ IsDict(get_nested_value(data, pre))
                THEN DOMAIN get_nested_value(data, pre).v ELSE {}
        IN  /\ \A k \in 0..(Len(P) - 1) :
                  /\ IsDict(get_nested_value(content_config_new, SubSeq(P, 1, k)))
                  /\ keys(content_config_new, SubSeq(P, 1, k))
                        = keys(call.before, SubSeq(P, 1, k)) \cup {P[k + 1]}
            /\ get_nested_value(content_config_new, P) = call.value
            /\ \A Q \in ProbePaths :
                  (~IsPrefix(P, Q) /\ ~IsPrefix(Q, P)) =>
                      /\ Present(content_config_new, Q) <=> Present(call.before, Q)
                      /\ get_nested_value(content_config_new, Q)
                            = get_nested_value(call.before, Q)

\* a value was set under stats.damage, which held a number, in a record where
\* stats has a second key and the record a second field
C24_Witness ==
    /\ Made("set_nested_value")
    /\ call.path = <<"stats", "damage">>
    /\ Present(call.before, <<"stats", "speed">>)
    /\ Present(content_config_new, <<"stats", "speed">>)
    /\ Present(content_config_new, <<"kind">>)
    /\ call.value = VList(<<VStr("epic"), VStr("new")>>)

\* C25: get(R, P) returns the "no value" result exactly when some segment of
\* P is missing or a non-mapping is indexed, so that result is never what get
\* returns for a field that is present.
C25_NoValueOnlyWhenAbsent ==
    Made("get_nested_value") => (IsNone(call.value) <=> ~Present(call.before, call.path))

\* C26: records influence each other only through the counters. While the
\* rules of a record are visited, no step changes the rule set (its rule
\* definitions, action values and context definitions) and no step changes a
\* record that is already stored in the output tree.
C26_RecordsIndependent ==
    [][pc = "rule" =>
          /\ rules_list' = rules_list
          /\ \A key \in DOMAIN new_data : \A id \in DOMAIN new_data[key] :
                 /\ key \in DOMAIN new_data'
                 /\ id \in DOMAIN new_data'[key]
                 /\ new_data'[key][id] = new_data[key][id]]_vars

\* the content ids of a group of the input tree
InputIds(f, k) ==
    LET group == GroupOf(input_files[f], k)
    IN  {group[i].id : i \in 1..Len(group)}

\* the group keys of the input tree that a top-level rule with a content
\* field matches
MatchedKeys(f) ==
    {k \in TreeKeys(f) : \E r \in 1..Len(rules_list) :
        /\ ContentType(rules_list[r]) # ""
        /\ StripDigits(k) = ContentKeyBase(ContentType(rules_list[r]))}

\* C27: a written output tree holds exactly the group keys of its input
\* tree that a top-level rule with a content field matches, and each of
\* these groups holds exactly the content ids of the input group: no group
\* that is matched is missing, no other group is present, no id is added or
\* dropped.
C27_ExactlyMatchedGroupsAndIds ==
    \A f \in 1..Len(outputs) :
        /\ DOMAIN outputs[f] = MatchedKeys(f)
        /\ \A k \in MatchedKeys(f) : DOMAIN outputs[f][k] = InputIds(f, k)

\* a tree was written whose input has a matched group with several records,
\* a matched group without records and a group that no rule matches
C27_Witness ==
    \E f \in 1..Len(outputs) :
        /\ \E k \in MatchedKeys(f) : Cardinality(InputIds(f, k)) >= 2
        /\ \E k \in MatchedKeys(f) : InputIds(f, k) = {}
        /\ TreeKeys(f) \ MatchedKeys(f) # {}

RECURSIVE RecordsInOrder(_, _)
\* the records of the groups named by keys, in the order they are processed
RecordsInOrder(tree, keys) ==
    IF keys = <<>> THEN <<>>
    ELSE [i \in 1..Len(GroupOf(tree, Head(keys))) |->
             [key |-> Head(keys), id |-> GroupOf(tree, Head(keys))[i].id,
              cfg |-> GroupOf(tree, Head(keys))[i].cfg]]
         \o RecordsInOrder(tree, Tail(keys))

\* the first value of the counter of rule model at cmd
FirstCmd ==
    IF <<"cmd">> \in DOMAIN sequence_overrides THEN sequence_overrides[<<"cmd">>] ELSE 1

\* C28: when several top-level rules match the same group, each starts from
\* the unmodified input record, the stored group is the result of the last
\* one alone, and the counter advances of the earlier ones remain. In rule
\* set 5 the top-level rules item and items match the same groups; the first
\* writes cmd, idx and uid, the second only cmd from the counter of rule
\* model at cmd (step 2), which the first has advanced once per record. Of n
\* records, the i-th is written as the input record with cmd at the first
\* value of the counter plus 2 * (n + i - 1), and with nothing else.
C28_LastTopRuleAlone ==
    rules_config_path = 5 =>
        \A f \in 1..Len(outputs) :
            LET recs == RecordsInOrder(input_files[f], MatchingKeys(input_files[f], "items"))
            IN  \A i \in 1..Len(recs) :
                    outputs[f][recs[i].key][recs[i].id] =
                        VMap(DictPut(recs[i].cfg.v, "cmd",
                                     VInt(FirstCmd + 2 * (Len(recs) + i - 1))))

\* a tree with three records in two groups was written under rule set 5
C28_Witness ==
    /\ rules_config_path = 5
    /\ \E f \in 1..Len(outputs) :
           /\ Len(RecordsInOrder(input_files[f], MatchingKeys(input_files[f], "items"))) = 3
           /\ outputs[f]["items2"]["bow"].v["cmd"] = VInt(FirstCmd + 10)


====
